---- MODULE Spec2Model ----
(***************************************************************************)
(* Model of the extended-information pipeline of pyonfx.Ass.__init__       *)
(* (src/pyonfx/ass_core.py): tag tokenizer, karaoke syllable builder,      *)
(* word splitter, syllable/word linking, char derivation and the layout    *)
(* of line, words, syllables and chars.                                    *)
(*                                                                         *)
(* Texts are sequences of one-character strings.  Lengths and positions    *)
(* are integers in HALF-PIXEL units (Px(n) is n pixels), so that Python's  *)
(* true division "/ 2" of an integer-valued quantity is exact.             *)
(* Optional fields are None (the empty tuple) or Some(v) (a 1-tuple).      *)
(***************************************************************************)
EXTENDS Integers, Sequences, FiniteSets, TLC

None == <<>>
Some(v) == <<v>>
Val(o) == o[1]

Px(n) == 2 * n
Half(x) == x \div 2

(***************************************************************************)
(* Character classes and string helpers                                    *)
(***************************************************************************)
Whitespace == {" ", "\t"}
Digits == {"0", "1", "2", "3", "4", "5", "6", "7", "8", "9"}

IsSpace(c) == c \in Whitespace
IsDigit(c) == c \in Digits

DigitVal(c) ==
    CASE c = "0" -> 0 [] c = "1" -> 1 [] c = "2" -> 2 [] c = "3" -> 3
      [] c = "4" -> 4 [] c = "5" -> 5 [] c = "6" -> 6 [] c = "7" -> 7
      [] c = "8" -> 8 [] c = "9" -> 9

\* int(s) for a string of decimal digits
RECURSIVE ParseInt(_)
ParseInt(ds) ==
    IF ds = <<>> THEN 0
    ELSE 10 * ParseInt(SubSeq(ds, 1, Len(ds) - 1)) + DigitVal(ds[Len(ds)])

\* len(s) - len(s.lstrip())
RECURSIVE LeadingSpaces(_)
LeadingSpaces(s) ==
    IF s = <<>> \/ ~IsSpace(s[1]) THEN 0 ELSE 1 + LeadingSpaces(Tail(s))

\* len(s) - len(s.rstrip())
RECURSIVE TrailingSpaces(_)
TrailingSpaces(s) ==
    IF s = <<>> \/ ~IsSpace(s[Len(s)]) THEN 0
    ELSE 1 + TrailingSpaces(SubSeq(s, 1, Len(s) - 1))

LStrip(s) == SubSeq(s, LeadingSpaces(s) + 1, Len(s))
RStrip(s) == SubSeq(s, 1, Len(s) - TrailingSpaces(s))
\* s.strip()
Strip(s) == RStrip(LStrip(s))

RECURSIVE Concat(_)
Concat(ss) == IF ss = <<>> THEN <<>> ELSE Head(ss) \o Concat(Tail(ss))

RECURSIVE SumSeq(_)
SumSeq(ns) == IF ns = <<>> THEN 0 ELSE Head(ns) + SumSeq(Tail(ns))

RECURSIVE MaxSeq(_)
MaxSeq(ns) ==
    IF ns = <<>> THEN 0
    ELSE LET m == MaxSeq(Tail(ns)) IN IF Head(ns) > m THEN Head(ns) ELSE m

\* " " * n
RECURSIVE Spaces(_)
Spaces(n) == IF n <= 0 THEN <<>> ELSE <<" ">> \o Spaces(n - 1)

(***************************************************************************)
(* The pattern \{.*?\} : a "{" followed, lazily, by the first later "}"    *)
(***************************************************************************)
\* 1-based index of the first "}" after position i, 0 when there is none
RECURSIVE FindClose(_, _)
FindClose(s, i) ==
    IF i + 1 > Len(s) THEN 0
    ELSE IF s[i + 1] = "}" THEN i + 1
    ELSE FindClose(s, i + 1)

\* 1-based start of the leftmost match of \{.*?\} at or after p, 0 if none
RECURSIVE NextGroup(_, _)
NextGroup(s, p) ==
    IF p > Len(s) THEN 0
    ELSE IF s[p] = "{" /\ FindClose(s, p) # 0 THEN p
    ELSE NextGroup(s, p + 1)

\* re.sub of every group by the empty string
RECURSIVE StripFrom(_, _)
StripFrom(s, p) ==
    LET g == NextGroup(s, p) IN
    IF g = 0 THEN SubSeq(s, p, Len(s))
    ELSE SubSeq(s, p, g - 1) \o StripFrom(s, FindClose(s, g) + 1)

StripTags(s) == StripFrom(s, 1)

\* token_pattern.split(s): text parts and captured groups, empty parts kept
RECURSIVE SplitFrom(_, _)
SplitFrom(s, p) ==
    LET g == NextGroup(s, p) IN
    IF g = 0 THEN <<SubSeq(s, p, Len(s))>>
    ELSE <<SubSeq(s, p, g - 1), SubSeq(s, g, FindClose(s, g))>>
         \o SplitFrom(s, FindClose(s, g) + 1)

TokenSplit(s) == SplitFrom(s, 1)

\* faulty variant: part[1:] for tags, keeping the closing brace
TokenOfDropLast(part) ==
    IF part[1] = "{" /\ part[Len(part)] = "}"
    THEN [type |-> "tags", value |-> SubSeq(part, 2, Len(part))]
    ELSE [type |-> "text", value |-> part]

\* part[1:-1] for tags, part verbatim for text
TokenOf(part) ==
    IF part[1] = "{" /\ part[Len(part)] = "}"
    THEN [type |-> "tags", value |-> SubSeq(part, 2, Len(part) - 1)]
    ELSE [type |-> "text", value |-> part]

RECURSIVE TokensOfParts(_)
TokensOfParts(parts) ==
    IF parts = <<>> THEN <<>>
    ELSE IF Head(parts) = <<>> THEN TokensOfParts(Tail(parts))
    ELSE <<TokenOf(Head(parts))>> \o TokensOfParts(Tail(parts))

Tokenize(s) == TokensOfParts(TokenSplit(s))

(***************************************************************************)
(* The karaoke pattern: backslash, k or K, optional o or f, one or more    *)
(* digits (group 1), then optionally backslash, "-" and a greedy run of    *)
(* characters other than backslash and "}"                                 *)
(***************************************************************************)
\* first position at or after p that holds no digit
RECURSIVE DigitRunEnd(_, _)
DigitRunEnd(s, p) ==
    IF p <= Len(s) /\ IsDigit(s[p]) THEN DigitRunEnd(s, p + 1) ELSE p

\* first position at or after p that holds a backslash or a "}"
RECURSIVE FxRunEnd(_, _)
FxRunEnd(s, p) ==
    IF p <= Len(s) /\ s[p] # "\\" /\ s[p] # "}" THEN FxRunEnd(s, p + 1) ELSE p

NoMatch == [start |-> 0, dstart |-> 0, dend |-> 0, end |-> 0]

\* the match of the karaoke pattern that starts at position i (1-based;
\* dend and end are the positions after the digits and after the match)
KMatchAt(s, i) ==
    IF ~(i + 2 <= Len(s) /\ s[i] = "\\" /\ s[i + 1] \in {"k", "K"}) THEN NoMatch
    ELSE LET ds == IF s[i + 2] \in {"o", "f"} THEN i + 3 ELSE i + 2
             de == DigitRunEnd(s, ds)
             fx == de + 1 <= Len(s) /\ s[de] = "\\" /\ s[de + 1] = "-"
         IN  IF de = ds THEN NoMatch
             ELSE [start |-> i, dstart |-> ds, dend |-> de,
                   end |-> IF fx THEN FxRunEnd(s, de + 2) ELSE de]

\* list(re.finditer(pattern, s)) scanning from position p
RECURSIVE KMatchesFrom(_, _)
KMatchesFrom(s, p) ==
    IF p > Len(s) THEN <<>>
    ELSE LET m == KMatchAt(s, p) IN
         IF m = NoMatch THEN KMatchesFrom(s, p + 1)
         ELSE <<m>> \o KMatchesFrom(s, m.end)

KTags(s) == KMatchesFrom(s, 1)

(***************************************************************************)
(* Syllable data fold (accumulators current_tags, current_k_tag,           *)
(* current_k_duration, current_text and the list syllable_data)            *)
(***************************************************************************)
FoldInit ==
    [tags |-> <<>>, k_tag |-> None, k_duration |-> None, text |-> <<>>,
     out |-> <<>>]

SylData(st) ==
    [tags |-> st.tags, k_tag |-> st.k_tag, k_duration |-> st.k_duration,
     text |-> st.text]

\* faulty variant: an open karaoke tag is overwritten by the next one
\* without closing its syllable
KStepOverwrite(st, tv, m, last) ==
    LET non_k == SubSeq(tv, last, m.start - 1)
        k_tag_full == SubSeq(tv, m.start, m.end - 1)
    IN  [tags |-> st.tags \o non_k \o k_tag_full,
         k_tag |-> Some(k_tag_full),
         k_duration |-> Some(SubSeq(tv, m.dstart, m.dend - 1)),
         text |-> st.text,
         out |-> st.out]

\* one iteration of "for k_match in k_tags"; last is the position after the
\* previous match (last_end + 1)
KStep(st, tv, m, last) ==
    LET non_k == SubSeq(tv, last, m.start - 1)
        t1 == st.tags \o non_k
        closed == st.k_tag # None
        k_tag_full == SubSeq(tv, m.start, m.end - 1)
    IN  [tags |-> (IF closed THEN <<>> ELSE t1) \o k_tag_full,
         k_tag |-> Some(k_tag_full),
         k_duration |-> Some(SubSeq(tv, m.dstart, m.dend - 1)),
         text |-> IF closed THEN <<>> ELSE st.text,
         out |-> IF closed
                 THEN Append(st.out, SylData([st EXCEPT !.tags = t1]))
                 ELSE st.out]

\* faulty variant: the tag text after the last karaoke tag is not kept
RECURSIVE KLoopNoRest(_, _, _, _)
KLoopNoRest(st, tv, ms, last) ==
    IF ms = <<>>
    THEN IF last <= Len(tv) /\ last = 1
         THEN [st EXCEPT !.tags = @ \o SubSeq(tv, last, Len(tv))]
         ELSE st
    ELSE KLoopNoRest(KStep(st, tv, Head(ms), last), tv, Tail(ms),
                     Head(ms).end)

RECURSIVE KLoop(_, _, _, _)
KLoop(st, tv, ms, last) ==
    IF ms = <<>>
    THEN IF last <= Len(tv)
         THEN [st EXCEPT !.tags = @ \o SubSeq(tv, last, Len(tv))]
         ELSE st
    ELSE KLoop(KStep(st, tv, Head(ms), last), tv, Tail(ms), Head(ms).end)

\* token_type == "tags"
OnTags(st, tv) == KLoop(st, tv, KTags(tv), 1)

\* token_type == "text"
OnText(st, tv) ==
    LET st1 == [st EXCEPT !.text = @ \o tv] IN
    IF st1.k_tag # None
    THEN [FoldInit EXCEPT !.out = Append(st1.out, SylData(st1))]
    ELSE st1

RECURSIVE FoldTokens(_, _)
FoldTokens(st, toks) ==
    IF toks = <<>> THEN st
    ELSE FoldTokens(IF Head(toks).type = "tags"
                    THEN OnTags(st, Head(toks).value)
                    ELSE OnText(st, Head(toks).value),
                    Tail(toks))

\* faulty variant: pending text without an open karaoke tag is not flushed
FinalFlushOpenTagOnly(st) ==
    IF st.k_tag # None
    THEN Append(st.out, SylData(st))
    ELSE st.out

\* "Add any remaining syllable data"
FinalFlush(st) ==
    IF st.k_tag # None \/ st.text # <<>>
    THEN Append(st.out, SylData(st))
    ELSE st.out

ParseSyllableData(toks) == FinalFlush(FoldTokens(FoldInit, toks))

(***************************************************************************)
(* Word splitter: re.findall of optional whitespace, a run of              *)
(* non-whitespace, optional whitespace (all greedy) over line.text         *)
(***************************************************************************)
RECURSIVE SpaceRunEnd(_, _)
SpaceRunEnd(s, p) ==
    IF p <= Len(s) /\ IsSpace(s[p]) THEN SpaceRunEnd(s, p + 1) ELSE p

RECURSIVE WordRunEnd(_, _)
WordRunEnd(s, p) ==
    IF p <= Len(s) /\ ~IsSpace(s[p]) THEN WordRunEnd(s, p + 1) ELSE p

\* faulty variant: the trailing whitespace group is not captured
RECURSIVE FindWordsNoPost(_, _)
FindWordsNoPost(s, p) ==
    LET q == SpaceRunEnd(s, p)
        e == WordRunEnd(s, q)
    IN  IF q > Len(s) THEN <<>>
        ELSE <<[prespace |-> q - p, text |-> SubSeq(s, q, e - 1),
                postspace |-> 0]>> \o FindWordsNoPost(s, e)

RECURSIVE FindWordsFrom(_, _)
FindWordsFrom(s, p) ==
    LET q == SpaceRunEnd(s, p)
        e == WordRunEnd(s, q)
        f == SpaceRunEnd(s, e)
    IN  IF q > Len(s) THEN <<>>
        ELSE <<[prespace |-> q - p, text |-> SubSeq(s, q, e - 1),
                postspace |-> f - e]>> \o FindWordsFrom(s, f)

FindWords(s) == FindWordsFrom(s, 1)

(***************************************************************************)
(* State                                                                   *)
(***************************************************************************)
VARIABLES
    pc,              \* the next step of the extended pipeline for the line
    meta,            \* self.meta: play_res_x, play_res_y
    vertical_kanji,  \* constructor argument
    font,            \* glyph metrics of Font(line.styleref)
    line,            \* the Line being extended (styleref is its style)
    words,           \* line.words
    tokens,          \* tokens
    syllable_data,   \* syllable_data
    syls,            \* line.syls
    chars,           \* line.chars
    file,            \* the lines of the input file
    pos,             \* 1-based position of the next file line to read
    section,         \* section
    styles,          \* self.styles: style name -> Style
    lines,           \* self.lines
    li,              \* number of lines the extended pass has gone through
    lines_by_styles, \* lines_by_styles: style name -> 1-based line numbers
    saved,           \* self.__saved
    plines,          \* self.__plines
    output,          \* number of entries write_line appended to self.__output
    written,         \* number of those entries in the file at path_output
    video,           \* self.meta.video
    platform,        \* sys.platform
    installed,       \* the programs subprocess.call finds
    log              \* the calls made on the object, each with its outcome

\* the state of the file reader and of the loop over self.lines
loadVars == <<file, pos, section, styles, lines, li, lines_by_styles>>

\* the output side of the object and the environment its players run in
lifeVars == <<saved, plines, output, written, video, platform, installed, log>>

vars ==
    <<pc, meta, vertical_kanji, font, line, words, tokens, syllable_data,
      syls, chars, file, pos, section, styles, lines, li, lines_by_styles,
      saved, plines, output, written, video, platform, installed, log>>

\* the output side as the constructor leaves it, nothing called yet
NoCalls ==
    /\ saved = FALSE
    /\ plines = 0
    /\ output = 0
    /\ written = None
    /\ log = <<>>

\* no video named by the file, no player installed
NoPlayer ==
    /\ video = None
    /\ platform = "linux"
    /\ installed = {}

\* the eight position fields of Line, Word, Syllable and Char, all unset
NoPos ==
    [x |-> None, y |-> None, left |-> None, center |-> None, right |-> None,
     top |-> None, middle |-> None, bottom |-> None]

(***************************************************************************)
(* Text measurement provider (Font.get_text_extents): width is the sum of  *)
(* the glyph widths, height the font height, an empty text measures 0 x 0  *)
(***************************************************************************)
WideChars == {"H", "W", "M"}

GlyphWidth(c) ==
    IF IsSpace(c) THEN font.space
    ELSE IF c \in WideChars THEN 2 * font.cw ELSE font.cw

RECURSIVE TextWidth(_)
TextWidth(t) == IF t = <<>> THEN 0 ELSE GlyphWidth(Head(t)) + TextWidth(Tail(t))

get_text_extents(t) == IF t = <<>> THEN <<0, 0>> ELSE <<TextWidth(t), font.ch>>

\* Font.get_metrics: ascent, descent, internal and external leading, kept
\* as opaque measured values
get_metrics == <<"ascent", "descent", "internal_leading", "external_leading">>

space_width == get_text_extents(<<" ">>)[1]
style_spacing == line.styleref.spacing
alignment == line.styleref.alignment
\* self.meta.play_res_x and self.meta.play_res_y once they are set
play_res_x == Val(meta.play_res_x)
play_res_y == Val(meta.play_res_y)

\* "play_res_x > 0 and play_res_y > 0" can be evaluated: the left operand is
\* a number and, when it is positive, so is the right one
ResolutionComparable ==
    /\ meta.play_res_x # None
    /\ play_res_x > 0 => meta.play_res_y # None

HasResolution == play_res_x > 0 /\ play_res_y > 0

(***************************************************************************)
(* Line: stripped text, extents and position                               *)
(***************************************************************************)
\* line.duration and line.text, set for every line
TimedLine(l) ==
    [l EXCEPT !.duration = Some(l.end_time - l.start_time),
              !.text = Some(StripTags(l.raw_text))]

\* line.duration, line.text and line.width, line.height and the font
\* metrics, for a line with a style
ExtendedLine(l) ==
    LET text == StripTags(l.raw_text) IN
    [TimedLine(l) EXCEPT
              !.width = Some(get_text_extents(text)[1]),
              !.height = Some(get_text_extents(text)[2]),
              !.ascent = Some(get_metrics[1]),
              !.descent = Some(get_metrics[2]),
              !.internal_leading = Some(get_metrics[3]),
              !.external_leading = Some(get_metrics[4])]

\* faulty variant: the line's own margins are ignored
LineHorizontalStyleMargins(l) ==
    LET tmp_margin_l == l.styleref.margin_l
        tmp_margin_r == l.styleref.margin_r
        w == Val(l.width)
        left == IF (l.styleref.alignment - 1) % 3 = 0 THEN tmp_margin_l
                ELSE IF (l.styleref.alignment - 2) % 3 = 0
                THEN Half(play_res_x) - Half(w)
                     + Half(tmp_margin_l) - Half(tmp_margin_r)
                ELSE play_res_x - tmp_margin_r - w
    IN  [l EXCEPT !.left = Some(left),
                  !.center = Some(left + Half(w)),
                  !.right = Some(left + w),
                  !.x = IF (l.styleref.alignment - 1) % 3 = 0 THEN Some(left)
                        ELSE IF (l.styleref.alignment - 2) % 3 = 0
                        THEN Some(left + Half(w))
                        ELSE Some(left + w)]

\* "Horizontal position" of the line
LineHorizontal(l) ==
    LET tmp_margin_l ==
            IF l.margin_l # 0 THEN l.margin_l ELSE l.styleref.margin_l
        tmp_margin_r ==
            IF l.margin_r # 0 THEN l.margin_r ELSE l.styleref.margin_r
        w == Val(l.width)
        left == IF (l.styleref.alignment - 1) % 3 = 0 THEN tmp_margin_l
                ELSE IF (l.styleref.alignment - 2) % 3 = 0
                THEN Half(play_res_x) - Half(w)
                     + Half(tmp_margin_l) - Half(tmp_margin_r)
                ELSE play_res_x - tmp_margin_r - w
    IN  [l EXCEPT !.left = Some(left),
                  !.center = Some(left + Half(w)),
                  !.right = Some(left + w),
                  !.x = IF (l.styleref.alignment - 1) % 3 = 0 THEN Some(left)
                        ELSE IF (l.styleref.alignment - 2) % 3 = 0
                        THEN Some(left + Half(w))
                        ELSE Some(left + w)]

\* "Vertical position" of the line
LineVertical(l) ==
    LET margin_v ==
            IF l.margin_v # 0 THEN l.margin_v ELSE l.styleref.margin_v
        h == Val(l.height)
        top == IF l.styleref.alignment > 6 THEN margin_v
               ELSE IF l.styleref.alignment > 3
               THEN Half(play_res_y) - Half(h)
               ELSE play_res_y - margin_v - h
    IN  [l EXCEPT !.top = Some(top),
                  !.middle = Some(top + Half(h)),
                  !.bottom = Some(top + h),
                  !.y = IF l.styleref.alignment > 6 THEN Some(top)
                        ELSE IF l.styleref.alignment > 3
                        THEN Some(top + Half(h))
                        ELSE Some(top + h)]

PositionedLine(l) == IF HasResolution THEN LineVertical(LineHorizontal(l)) ELSE l

(***************************************************************************)
(* Words                                                                   *)
(***************************************************************************)
\* the Word objects of line.words, wi counting from 0
RECURSIVE MakeWords(_, _)
MakeWords(triples, wi) ==
    IF triples = <<>> THEN <<>>
    ELSE LET t == Head(triples) IN
         <<[i |-> wi, start_time |-> line.start_time,
            end_time |-> line.end_time, duration |-> Val(line.duration),
            text |-> t.text, prespace |-> t.prespace,
            postspace |-> t.postspace,
            width |-> get_text_extents(t.text)[1],
            height |-> get_text_extents(t.text)[2]] @@ NoPos>>
         \o MakeWords(Tail(triples), wi + 1)

LineWords(text) == MakeWords(FindWords(text), 0)

\* x by the alignment's column, from an element with left, center, right
AnchorX(el) ==
    IF (alignment - 1) % 3 = 0 THEN el.left
    ELSE IF (alignment - 2) % 3 = 0 THEN el.center
    ELSE el.right

\* horizontal word positions (alignment > 6 or alignment < 4)
RECURSIVE WordsHorizontal(_, _)
WordsHorizontal(ws, cur_x) ==
    IF ws = <<>> THEN <<>>
    ELSE LET word == Head(ws)
             x0 == cur_x + word.prespace * (space_width + style_spacing)
             w1 == [word EXCEPT !.left = Some(x0),
                                !.center = Some(x0 + Half(word.width)),
                                !.right = Some(x0 + word.width),
                                !.top = line.top,
                                !.middle = line.middle,
                                !.bottom = line.bottom,
                                !.y = line.y]
         IN  <<[w1 EXCEPT !.x = AnchorX(w1)]>>
             \o WordsHorizontal(Tail(ws),
                    x0 + word.width
                       + word.postspace * (space_width + style_spacing)
                       + style_spacing)

Widths(els) == [k \in 1..Len(els) |-> els[k].width]
Heights(els) == [k \in 1..Len(els) |-> els[k].height]

\* vertical word positions (alignment 4, 5, 6)
RECURSIVE WordsVertical(_, _, _)
WordsVertical(ws, cur_y, max_width) ==
    IF ws = <<>> THEN <<>>
    ELSE LET word == Head(ws)
             x_fix == Half(max_width - word.width)
             left == IF alignment = 4 THEN Val(line.left) + x_fix
                     ELSE IF alignment = 5
                     THEN Half(play_res_x) - Half(word.width)
                     ELSE Val(line.right) - word.width - x_fix
         IN  <<[word EXCEPT
                   !.left = Some(left),
                   !.center = Some(left + Half(word.width)),
                   !.right = Some(left + word.width),
                   !.x = IF alignment = 4 THEN Some(left)
                         ELSE IF alignment = 5
                         THEN Some(left + Half(word.width))
                         ELSE Some(left + word.width),
                   !.top = Some(cur_y),
                   !.middle = Some(cur_y + Half(word.height)),
                   !.bottom = Some(cur_y + word.height),
                   !.y = Some(cur_y + Half(word.height))]>>
             \o WordsVertical(Tail(ws), cur_y + word.height, max_width)

\* the guard that selects the left-to-right layout of the words
WordsLeftToRight == alignment > 6 \/ alignment < 4

PositionedWords(ws) ==
    IF ws # <<>> /\ HasResolution
    THEN IF WordsLeftToRight
         THEN WordsHorizontal(ws, Val(line.left))
         ELSE WordsVertical(ws,
                  Half(play_res_y) - Half(SumSeq(Heights(ws))),
                  MaxSeq(Widths(ws)))
    ELSE ws

(***************************************************************************)
(* Syllables                                                               *)
(***************************************************************************)
\* word_boundaries: (start, end, word_i) over prespace + text + postspace
RECURSIVE WordBoundariesFrom(_, _)
WordBoundariesFrom(ws, idx) ==
    IF ws = <<>> THEN <<>>
    ELSE LET w == Head(ws)
             start == idx + w.prespace
             end == start + Len(w.text)
         IN  <<[start |-> start, end |-> end, w_i |-> w.i]>>
             \o WordBoundariesFrom(Tail(ws), end + w.postspace)

WordBoundaries(ws) == WordBoundariesFrom(ws, 0)

\* "Map syllable to its word index": first range holding syl_start, else 0
RECURSIVE SylWordI(_, _)
SylWordI(wb, syl_start) ==
    IF wb = <<>> THEN 0
    ELSE IF Head(wb).start <= syl_start /\ syl_start < Head(wb).end
    THEN Head(wb).w_i
    ELSE SylWordI(Tail(wb), syl_start)

\* end of the greedy run of characters that are no whitespace, backslash or "}"
RECURSIVE FxNameEnd(_, _)
FxNameEnd(s, p) ==
    IF p <= Len(s) /\ ~IsSpace(s[p]) /\ s[p] # "\\" /\ s[p] # "}"
    THEN FxNameEnd(s, p + 1) ELSE p

\* group 1 of the first match of backslash, "-", name in tags, or ""
RECURSIVE InlineFxFrom(_, _)
InlineFxFrom(s, p) ==
    IF p + 2 > Len(s) THEN <<>>
    ELSE IF s[p] = "\\" /\ s[p + 1] = "-" /\ FxNameEnd(s, p + 2) > p + 2
    THEN SubSeq(s, p + 2, FxNameEnd(s, p + 2) - 1)
    ELSE InlineFxFrom(s, p + 1)

InlineFx(tags) == InlineFxFrom(tags, 1)

\* faulty variant: the centiseconds are not scaled to ms
SylDurationCs(d) == IF d.k_tag # None THEN ParseInt(Val(d.k_duration)) ELSE 0

\* duration of a syllable record in ms
SylDuration(d) == IF d.k_tag # None THEN ParseInt(Val(d.k_duration)) * 10 ELSE 0

\* syl_char_idx += prespace + len(text_stripped) + postspace
SylAdvance(d) == LeadingSpaces(d.text) + Len(Strip(d.text)) + TrailingSpaces(d.text)

\* "Build Syllable objects from parsed syllable data"
RECURSIVE MakeSyls(_, _, _, _, _)
MakeSyls(data, si, last_time, syl_char_idx, wb) ==
    IF data = <<>> THEN <<>>
    ELSE LET d == Head(data)
             prespace == LeadingSpaces(d.text)
             postspace == TrailingSpaces(d.text)
             text_stripped == Strip(d.text)
             duration == SylDuration(d)
             end_time == last_time + duration
         IN  <<[i |-> si,
                word_i |-> SylWordI(wb, syl_char_idx + prespace),
                start_time |-> last_time,
                end_time |-> end_time,
                duration |-> duration,
                text |-> text_stripped,
                tags |-> d.tags,
                inline_fx |-> InlineFx(d.tags),
                prespace |-> prespace,
                postspace |-> postspace,
                width |-> get_text_extents(text_stripped)[1],
                height |-> get_text_extents(text_stripped)[2]] @@ NoPos>>
             \o MakeSyls(Tail(data), si + 1, end_time,
                         syl_char_idx + SylAdvance(d), wb)

LineSyls(data, ws) == MakeSyls(data, 0, 0, 0, WordBoundaries(ws))

\* faulty variant: the gap of the trailing whitespace is not advanced over
RECURSIVE SylsHorizontalNoPost(_, _)
SylsHorizontalNoPost(ss, cur_x) ==
    IF ss = <<>> THEN <<>>
    ELSE LET syl == Head(ss)
             x0 == cur_x + syl.prespace * (space_width + style_spacing)
             s1 == [syl EXCEPT !.left = Some(x0),
                               !.center = Some(x0 + Half(syl.width)),
                               !.right = Some(x0 + syl.width),
                               !.top = line.top,
                               !.middle = line.middle,
                               !.bottom = line.bottom,
                               !.y = line.y]
         IN  <<[s1 EXCEPT !.x = AnchorX(s1)]>>
             \o SylsHorizontalNoPost(Tail(ss),
                    x0 + syl.width + style_spacing)

\* horizontal syllable positions
RECURSIVE SylsHorizontal(_, _)
SylsHorizontal(ss, cur_x) ==
    IF ss = <<>> THEN <<>>
    ELSE LET syl == Head(ss)
             x0 == cur_x + syl.prespace * (space_width + style_spacing)
             s1 == [syl EXCEPT !.left = Some(x0),
                               !.center = Some(x0 + Half(syl.width)),
                               !.right = Some(x0 + syl.width),
                               !.top = line.top,
                               !.middle = line.middle,
                               !.bottom = line.bottom,
                               !.y = line.y]
         IN  <<[s1 EXCEPT !.x = AnchorX(s1)]>>
             \o SylsHorizontal(Tail(ss),
                    x0 + syl.width
                       + syl.postspace * (space_width + style_spacing)
                       + style_spacing)

\* "Kanji vertical position" of the syllables
RECURSIVE SylsVertical(_, _, _)
SylsVertical(ss, cur_y, max_width) ==
    IF ss = <<>> THEN <<>>
    ELSE LET syl == Head(ss)
             x_fix == Half(max_width - syl.width)
             left == IF alignment = 4 THEN Val(line.left) + x_fix
                     ELSE IF alignment = 5
                     THEN Val(line.center) - Half(syl.width)
                     ELSE Val(line.right) - syl.width - x_fix
         IN  <<[syl EXCEPT
                   !.left = Some(left),
                   !.center = Some(left + Half(syl.width)),
                   !.right = Some(left + syl.width),
                   !.x = IF alignment = 4 THEN Some(left)
                         ELSE IF alignment = 5
                         THEN Some(left + Half(syl.width))
                         ELSE Some(left + syl.width),
                   !.top = Some(cur_y),
                   !.middle = Some(cur_y + Half(syl.height)),
                   !.bottom = Some(cur_y + syl.height),
                   !.y = Some(cur_y + Half(syl.height))]>>
             \o SylsVertical(Tail(ss), cur_y + syl.height, max_width)

\* the guard that selects the left-to-right layout of syllables and of chars
LeftToRight == alignment > 6 \/ alignment < 4 \/ ~vertical_kanji

PositionedSyls(ss) ==
    IF ss # <<>> /\ HasResolution
    THEN IF LeftToRight
         THEN SylsHorizontal(ss, Val(line.left))
         ELSE SylsVertical(ss,
                  Half(play_res_y) - Half(SumSeq(Heights(ss))),
                  MaxSeq(Widths(ss)))
    ELSE ss

(***************************************************************************)
(* Chars                                                                   *)
(***************************************************************************)
\* faulty variant: the postspace is left out of el_text
ElTextNoPost(el) == Spaces(el.prespace) \o el.text

\* el_text: prespace spaces, the text, postspace spaces
ElText(el) == Spaces(el.prespace) \o el.text \o Spaces(el.postspace)

\* faulty variant: syl_char_i counts along the whole line
CharsOfElLineOffset(el, from_syls, char_index) ==
    LET el_text == ElText(el) IN
    [ci \in 1..Len(el_text) |->
        [i |-> char_index + ci - 1,
         word_i |-> IF from_syls THEN el.word_i ELSE el.i,
         syl_i |-> IF from_syls THEN Some(el.i) ELSE None,
         syl_char_i |-> char_index + ci - 1,
         start_time |-> el.start_time,
         end_time |-> el.end_time,
         duration |-> el.duration,
         text |-> <<el_text[ci]>>,
         inline_fx |-> IF from_syls THEN el.inline_fx ELSE <<>>,
         width |-> get_text_extents(<<el_text[ci]>>)[1],
         height |-> get_text_extents(<<el_text[ci]>>)[2]] @@ NoPos]

\* the chars of one element (a syllable when from_syls, else a word)
CharsOfEl(el, from_syls, char_index) ==
    LET el_text == ElText(el) IN
    [ci \in 1..Len(el_text) |->
        [i |-> char_index + ci - 1,
         word_i |-> IF from_syls THEN el.word_i ELSE el.i,
         syl_i |-> IF from_syls THEN Some(el.i) ELSE None,
         syl_char_i |-> ci - 1,
         start_time |-> el.start_time,
         end_time |-> el.end_time,
         duration |-> el.duration,
         text |-> <<el_text[ci]>>,
         inline_fx |-> IF from_syls THEN el.inline_fx ELSE <<>>,
         width |-> get_text_extents(<<el_text[ci]>>)[1],
         height |-> get_text_extents(<<el_text[ci]>>)[2]] @@ NoPos]

RECURSIVE MakeChars(_, _, _)
MakeChars(els, from_syls, char_index) ==
    IF els = <<>> THEN <<>>
    ELSE LET cs == CharsOfEl(Head(els), from_syls, char_index) IN
         cs \o MakeChars(Tail(els), from_syls, char_index + Len(cs))

\* words_or_syls: the syllables when there are any, the words otherwise
LineChars(ss, ws) ==
    IF ss # <<>> THEN MakeChars(ss, TRUE, 0) ELSE MakeChars(ws, FALSE, 0)

\* horizontal char positions
RECURSIVE CharsHorizontal(_, _)
CharsHorizontal(cs, cur_x) ==
    IF cs = <<>> THEN <<>>
    ELSE LET char == Head(cs)
             c1 == [char EXCEPT !.left = Some(cur_x),
                                !.center = Some(cur_x + Half(char.width)),
                                !.right = Some(cur_x + char.width),
                                !.top = line.top,
                                !.middle = line.middle,
                                !.bottom = line.bottom,
                                !.y = line.y]
         IN  <<[c1 EXCEPT !.x = AnchorX(c1)]>>
             \o CharsHorizontal(Tail(cs), cur_x + char.width + style_spacing)

\* "Fixing line positions" in the vertical char layout
FixedLine(l, cur_y, max_width, sum_height) ==
    LET l1 == [l EXCEPT !.top = Some(cur_y),
                        !.middle = Some(Half(play_res_y)),
                        !.bottom = Some(cur_y + sum_height),
                        !.width = Some(max_width),
                        !.height = Some(sum_height)]
    IN  IF alignment = 4
        THEN [l1 EXCEPT !.center = Some(Val(l.left) + Half(max_width)),
                        !.right = Some(Val(l.left) + max_width)]
        ELSE IF alignment = 5
        THEN [l1 EXCEPT !.left = Some(Val(l.center) - Half(max_width)),
                        !.right = Some(Val(l.center) - Half(max_width)
                                       + max_width)]
        ELSE [l1 EXCEPT !.left = Some(Val(l.right) - max_width),
                        !.center = Some(Val(l.right) - max_width
                                        + Half(max_width))]

\* faulty variant: cur_y is not advanced by the char's height
RECURSIVE CharsVerticalNoAdvance(_, _, _, _)
CharsVerticalNoAdvance(cs, cur_y, max_width, l) ==
    IF cs = <<>> THEN <<>>
    ELSE LET char == Head(cs)
             x_fix == Half(max_width - char.width)
             left == IF alignment = 4 THEN Val(l.left) + x_fix
                     ELSE IF alignment = 5
                     THEN Half(play_res_x) - Half(char.width)
                     ELSE Val(l.right) - char.width - x_fix
         IN  <<[char EXCEPT
                   !.left = Some(left),
                   !.center = Some(left + Half(char.width)),
                   !.right = Some(left + char.width),
                   !.x = IF alignment = 4 THEN Some(left)
                         ELSE IF alignment = 5
                         THEN Some(left + Half(char.width))
                         ELSE Some(left + char.width),
                   !.top = Some(cur_y),
                   !.middle = Some(cur_y + Half(char.height)),
                   !.bottom = Some(cur_y + char.height),
                   !.y = Some(cur_y + Half(char.height))]>>
             \o CharsVerticalNoAdvance(Tail(cs), cur_y, max_width, l)

\* vertical char positions, l being the line after "Fixing line positions"
RECURSIVE CharsVertical(_, _, _, _)
CharsVertical(cs, cur_y, max_width, l) ==
    IF cs = <<>> THEN <<>>
    ELSE LET char == Head(cs)
             x_fix == Half(max_width - char.width)
             left == IF alignment = 4 THEN Val(l.left) + x_fix
                     ELSE IF alignment = 5
                     THEN Half(play_res_x) - Half(char.width)
                     ELSE Val(l.right) - char.width - x_fix
         IN  <<[char EXCEPT
                   !.left = Some(left),
                   !.center = Some(left + Half(char.width)),
                   !.right = Some(left + char.width),
                   !.x = IF alignment = 4 THEN Some(left)
                         ELSE IF alignment = 5
                         THEN Some(left + Half(char.width))
                         ELSE Some(left + char.width),
                   !.top = Some(cur_y),
                   !.middle = Some(cur_y + Half(char.height)),
                   !.bottom = Some(cur_y + char.height),
                   !.y = Some(cur_y + Half(char.height))]>>
             \o CharsVertical(Tail(cs), cur_y + char.height, max_width, l)

\* chars and line after "Calculate character positions"
PositionedCharsAndLine(cs, l) ==
    IF cs # <<>> /\ HasResolution
    THEN IF LeftToRight
         THEN [chars |-> CharsHorizontal(cs, Val(l.left)), line |-> l]
         ELSE LET max_width == MaxSeq(Widths(cs))
                  sum_height == SumSeq(Heights(cs))
                  cur_y == Half(play_res_y) - Half(sum_height)
                  l1 == FixedLine(l, cur_y, max_width, sum_height)
              IN  [chars |-> CharsVertical(cs, cur_y, max_width, l1),
                   line |-> l1]
    ELSE [chars |-> cs, line |-> l]

(***************************************************************************)
(* Inputs                                                                  *)
(***************************************************************************)
MaxPieces == 4

KTag5 == <<"{", "\\", "k", "5", "}">>
ITag == <<"{", "\\", "i", "1", "}">>

Pieces == {<<"a">>, <<"b">>, <<" ">>, KTag5, ITag, <<"{">>, <<"}">>}

PieceSeqs == UNION {[1..n -> Pieces] : n \in 0..MaxPieces}

GeneratedTexts == {Concat(ps) : ps \in PieceSeqs}

\* Hello {\k50}world
HelloWorld ==
    <<"H", "e", "l", "l", "o", " ", "{", "\\", "k", "5", "0", "}",
      "w", "o", "r", "l", "d">>

ExampleTexts ==
    { HelloWorld,
      \* {\k5}a{\k5} {\k5}b
      KTag5 \o <<"a">> \o KTag5 \o <<" ">> \o KTag5 \o <<"b">>,
      \* {\k5}  {\k5}a b
      KTag5 \o <<" ", " ">> \o KTag5 \o <<"a", " ", "b">>,
      \* {\k10\-fx}ab {\i1\K20\kf3}c{\ko7}
      <<"{", "\\", "k", "1", "0", "\\", "-", "f", "x", "}", "a", "b", " ",
        "{", "\\", "i", "1", "\\", "K", "2", "0", "\\", "k", "f", "3", "}",
        "c", "{", "\\", "k", "o", "7", "}">>,
      \* a{\k5}b{x
      <<"a">> \o KTag5 \o <<"b", "{", "x">>,
      \* {\k5}a {\k5\-fx}bc d
      KTag5 \o <<"a", " ", "{", "\\", "k", "5", "\\", "-", "f", "x", "}",
                 "b", "c", " ", "d">>,
      \* {\k5\i1}a{\k5}b{\i1}
      <<"{", "\\", "k", "5", "\\", "i", "1", "}", "a">> \o KTag5
          \o <<"b">> \o ITag,
      \* "\ta  b "
      <<"\t", "a", " ", " ", "b", " ">> }

\* A resolved Style: alignment, margins and spacing
StyleOf(al, ml, mr, mv, sp) ==
    [alignment |-> al, margin_l |-> ml, margin_r |-> mr, margin_v |-> mv,
     spacing |-> sp]

\* the fields of a Line that the extended pipeline fills in, all unset
NoDerived ==
    [duration |-> None, text |-> None, width |-> None, height |-> None,
     ascent |-> None, descent |-> None, internal_leading |-> None,
     external_leading |-> None, leadin |-> None, leadout |-> None,
     words |-> None, syls |-> None, chars |-> None]
    @@ NoPos

\* A Line as the events parser builds it: derived fields unset
NewLine(raw, st, ml, mr, mv) ==
    [raw_text |-> raw, styleref |-> st, start_time |-> 1000,
     end_time |-> 3500, margin_l |-> ml, margin_r |-> mr, margin_v |-> mv]
    @@ NoDerived

\* Meta with PlayResX and PlayResY parsed (lengths in half pixels)
Resolution(x, y) == [play_res_x |-> Some(x), play_res_y |-> Some(y)]

FullHD == Resolution(Px(1920), Px(1080))

\* no file is being read: the line stands alone
NoFile ==
    /\ file = <<>>
    /\ pos = 1
    /\ section = ""
    /\ styles = <<>>
    /\ lines = <<>>
    /\ li = 0
    /\ lines_by_styles = <<>>

Unstarted ==
    /\ pc = "extend"
    /\ NoFile
    /\ NoCalls
    /\ NoPlayer
    /\ words = <<>>
    /\ tokens = <<>>
    /\ syllable_data = <<>>
    /\ syls = <<>>
    /\ chars = <<>>

\* many texts, few layouts
Init ==
    /\ Unstarted
    /\ meta = FullHD
    /\ vertical_kanji \in BOOLEAN
    /\ font = [cw |-> Px(10), ch |-> Px(20), space |-> Px(4)]
    /\ \E raw \in GeneratedTexts \cup ExampleTexts :
          line = NewLine(raw, StyleOf(5, Px(10), Px(10), Px(10), Px(1)),
                         0, 0, 0)

LayoutTexts ==
    { <<"a">>, <<"a", " ", "W">>, KTag5 \o <<"a">> \o KTag5 \o <<"W", "b">>,
      <<" ">>, <<>>,
      \* " {\k5}a {\k5} b{\k5}c": spaces on both sides of a syllable border
      <<" ">> \o KTag5 \o <<"a", " ">> \o KTag5 \o <<" ", "b">>
          \o KTag5 \o <<"c">> }

\* few texts, many layouts
InitLayout ==
    /\ Unstarted
    /\ meta \in {FullHD, Resolution(Px(640), Px(481)), Resolution(0, Px(480))}
    /\ vertical_kanji \in BOOLEAN
    /\ font \in {[cw |-> Px(200), ch |-> Px(50), space |-> Px(60)],
                 [cw |-> Px(11), ch |-> Px(21), space |-> Px(4)]}
    /\ \E raw \in LayoutTexts, al \in 1..9,
          sm \in {<<0, 0, 0>>, <<Px(10), Px(25), Px(15)>>},
          lm \in {<<0, 0, 0>>, <<Px(30), 0, Px(7)>>, <<0, Px(40), 0>>} :
          line = NewLine(raw, StyleOf(al, sm[1], sm[2], sm[3], Px(1)),
                         lm[1], lm[2], lm[3])

(***************************************************************************)
(* Steps of the extended pipeline for the line, in program order           *)
(***************************************************************************)
\* line.duration, line.text, line.width, line.height
ExtendLine ==
    /\ pc = "extend"
    /\ line' = ExtendedLine(line)
    /\ pc' = "line_pos"
    /\ UNCHANGED <<meta, vertical_kanji, font, words, tokens, syllable_data,
                   syls, chars>>
    /\ UNCHANGED loadVars
    /\ UNCHANGED lifeVars

PositionLine ==
    /\ pc = "line_pos"
    /\ ResolutionComparable
    /\ line' = PositionedLine(line)
    /\ pc' = "words"
    /\ UNCHANGED <<meta, vertical_kanji, font, words, tokens, syllable_data,
                   syls, chars>>
    /\ UNCHANGED loadVars
    /\ UNCHANGED lifeVars

AddWords ==
    /\ pc = "words"
    /\ words' = LineWords(Val(line.text))
    /\ pc' = "word_pos"
    /\ UNCHANGED <<meta, vertical_kanji, font, line, tokens, syllable_data,
                   syls, chars>>
    /\ UNCHANGED loadVars
    /\ UNCHANGED lifeVars

PositionWords ==
    /\ pc = "word_pos"
    /\ words' = PositionedWords(words)
    /\ pc' = "tokens"
    /\ UNCHANGED <<meta, vertical_kanji, font, line, tokens, syllable_data,
                   syls, chars>>
    /\ UNCHANGED loadVars
    /\ UNCHANGED lifeVars

SplitTokens ==
    /\ pc = "tokens"
    /\ tokens' = Tokenize(line.raw_text)
    /\ pc' = "syl_data"
    /\ UNCHANGED <<meta, vertical_kanji, font, line, words, syllable_data,
                   syls, chars>>
    /\ UNCHANGED loadVars
    /\ UNCHANGED lifeVars

ParseSyllables ==
    /\ pc = "syl_data"
    /\ syllable_data' = ParseSyllableData(tokens)
    /\ pc' = "syls"
    /\ UNCHANGED <<meta, vertical_kanji, font, line, words, tokens, syls,
                   chars>>
    /\ UNCHANGED loadVars
    /\ UNCHANGED lifeVars

AddSyls ==
    /\ pc = "syls"
    /\ syls' = LineSyls(syllable_data, words)
    /\ pc' = "syl_pos"
    /\ UNCHANGED <<meta, vertical_kanji, font, line, words, tokens,
                   syllable_data, chars>>
    /\ UNCHANGED loadVars
    /\ UNCHANGED lifeVars

PositionSyls ==
    /\ pc = "syl_pos"
    /\ syls' = PositionedSyls(syls)
    /\ pc' = "chars"
    /\ UNCHANGED <<meta, vertical_kanji, font, line, words, tokens,
                   syllable_data, chars>>
    /\ UNCHANGED loadVars
    /\ UNCHANGED lifeVars

AddChars ==
    /\ pc = "chars"
    /\ chars' = LineChars(syls, words)
    /\ pc' = "char_pos"
    /\ UNCHANGED <<meta, vertical_kanji, font, line, words, tokens,
                   syllable_data, syls>>
    /\ UNCHANGED loadVars
    /\ UNCHANGED lifeVars

PositionChars ==
    /\ pc = "char_pos"
    /\ chars' = PositionedCharsAndLine(chars, line).chars
    /\ line' = PositionedCharsAndLine(chars, line).line
    /\ pc' = "done"
    /\ UNCHANGED <<meta, vertical_kanji, font, words, tokens, syllable_data,
                   syls>>
    /\ UNCHANGED loadVars
    /\ UNCHANGED lifeVars

Next ==
    \/ ExtendLine
    \/ PositionLine
    \/ AddWords
    \/ PositionWords
    \/ SplitTokens
    \/ ParseSyllables
    \/ AddSyls
    \/ PositionSyls
    \/ AddChars
    \/ PositionChars

Spec == Init /\ [][Next]_vars

SpecLayout == InitLayout /\ [][Next]_vars

(***************************************************************************)
(* The input file.  A file line is a record: a section header with its     *)
(* name, a PlayResX / PlayResY key with its number, a "Style: " record or  *)
(* a "Dialogue: " / "Comment: " record with its comma-separated fields, or *)
(* any other line (blank, "Format: ...", another key).  Numbers of the     *)
(* file are in pixels, event times in centiseconds.                        *)
(***************************************************************************)
Header(name) == [kind |-> "header", name |-> name]
Other == [kind |-> "other"]
PlayResX(n) == [kind |-> "PlayResX", value |-> n]
PlayResY(n) == [kind |-> "PlayResY", value |-> n]
StyleLine(fields) == [kind |-> "Style", fields |-> fields]
EventLine(kw, fields) == [kind |-> kw, fields |-> fields]

EventKinds == {"Dialogue", "Comment"}

\* the section names the reader has a branch for
KnownSections ==
    {"Script Info", "Aegisub Project Garbage", "V4+ Styles", "Events",
     "Aegisub Extradata"}

\* the exceptions that end the load
Exceptions == {"ValueError", "IndexError", "TypeError"}

\* Convert.time of an ASS timestamp h:mm:ss.cc, given as its centiseconds
ConvertTime(cs) == 10 * cs

\* ",".join(parts)
RECURSIVE Join(_)
Join(parts) ==
    IF parts = <<>> THEN <<>>
    ELSE IF Len(parts) = 1 THEN Head(parts)
    ELSE Head(parts) \o <<",">> \o Join(Tail(parts))

\* the number of fields a style record is read up to (style[22])
StyleFieldCount == 23

\* the number of fields an event record is indexed up to (line_fields[8])
EventFieldCount == 9

\* Style(...) from the fields of a style record
ParseStyle(f) == StyleOf(f[19], Px(f[20]), Px(f[21]), Px(f[22]), Px(f[14]))

\* self.styles[style[0]] = Style(...)
WithStyle(st, f) ==
    [n \in DOMAIN st \cup {f[1]} |-> IF n = f[1] THEN ParseStyle(f) ELSE st[n]]

\* faulty variant: an unknown name falls back to some parsed style
StyleRefOrAny(st, name) ==
    IF name \in DOMAIN st THEN Some(st[name])
    ELSE IF DOMAIN st # {} THEN Some(st[CHOOSE n \in DOMAIN st : TRUE])
    ELSE None

\* self.styles.get(name)
StyleRef(st, name) == IF name \in DOMAIN st THEN Some(st[name]) ELSE None

\* Line(...) from the keyword and the fields of an event record
ParseEvent(kw, f, index) ==
    [comment |-> kw = "Comment",
     i |-> index,
     start_time |-> ConvertTime(f[2]),
     end_time |-> ConvertTime(f[3]),
     style |-> f[4],
     styleref |-> StyleRef(styles, f[4]),
     margin_l |-> Px(f[6]),
     margin_r |-> Px(f[7]),
     margin_v |-> Px(f[8]),
     raw_text |-> Join(SubSeq(f, 10, Len(f)))]
    @@ NoDerived

(***************************************************************************)
(* Steps of the file reader, one per branch of the loop over the file      *)
(***************************************************************************)
Reading == pc = "read" /\ pos <= Len(file)

pipeVars == <<vertical_kanji, font, line, words, tokens, syllable_data, syls, chars>>

\* a section header: "Updating section"
ReadHeader ==
    /\ Reading
    /\ file[pos].kind = "header"
    /\ section' = file[pos].name
    /\ pos' = pos + 1
    /\ UNCHANGED <<pc, meta, file, styles, lines, li, lines_by_styles>>
    /\ UNCHANGED pipeVars
    /\ UNCHANGED lifeVars

\* "Parsing Meta data"
ReadInfo ==
    /\ Reading
    /\ file[pos].kind # "header"
    /\ section \in {"Script Info", "Aegisub Project Garbage"}
    /\ meta' = IF file[pos].kind = "PlayResX"
               THEN [meta EXCEPT !.play_res_x = Some(Px(file[pos].value))]
               ELSE IF file[pos].kind = "PlayResY"
               THEN [meta EXCEPT !.play_res_y = Some(Px(file[pos].value))]
               ELSE meta
    /\ pos' = pos + 1
    /\ UNCHANGED <<pc, file, section, styles, lines, li, lines_by_styles>>
    /\ UNCHANGED pipeVars
    /\ UNCHANGED lifeVars

\* "Parsing Styles": a record is read up to its 23rd field
ReadStyle ==
    /\ Reading
    /\ file[pos].kind # "header"
    /\ section = "V4+ Styles"
    /\ IF file[pos].kind # "Style"
       THEN pos' = pos + 1 /\ UNCHANGED <<pc, styles>>
       ELSE IF Len(file[pos].fields) >= StyleFieldCount
       THEN /\ styles' = WithStyle(styles, file[pos].fields)
            /\ pos' = pos + 1
            /\ UNCHANGED pc
       ELSE pc' = "IndexError" /\ UNCHANGED <<pos, styles>>
    /\ UNCHANGED <<meta, file, section, lines, li, lines_by_styles>>
    /\ UNCHANGED pipeVars
    /\ UNCHANGED lifeVars

\* "Parsing Dialogues": a record is indexed up to its 9th field, the fields
\* from the 10th on are joined into raw_text
ReadEvent ==
    /\ Reading
    /\ file[pos].kind # "header"
    /\ section = "Events"
    /\ IF file[pos].kind \notin EventKinds
       THEN pos' = pos + 1 /\ UNCHANGED <<pc, lines>>
       ELSE IF Len(file[pos].fields) >= EventFieldCount
       THEN /\ lines' = Append(lines, ParseEvent(file[pos].kind,
                                                 file[pos].fields, Len(lines)))
            /\ pos' = pos + 1
            /\ UNCHANGED pc
       ELSE pc' = "IndexError" /\ UNCHANGED <<pos, lines>>
    /\ UNCHANGED <<meta, file, section, styles, li, lines_by_styles>>
    /\ UNCHANGED pipeVars
    /\ UNCHANGED lifeVars

\* a line of the extradata section is kept for the output
ReadExtradata ==
    /\ Reading
    /\ file[pos].kind # "header"
    /\ section = "Aegisub Extradata"
    /\ pos' = pos + 1
    /\ UNCHANGED <<pc, meta, file, section, styles, lines, li, lines_by_styles>>
    /\ UNCHANGED pipeVars
    /\ UNCHANGED lifeVars

\* a line that is no header, in any other section (or before the first one)
RaiseUnexpectedSection ==
    /\ Reading
    /\ file[pos].kind # "header"
    /\ section \notin KnownSections
    /\ pc' = "ValueError"
    /\ UNCHANGED <<meta, file, pos, section, styles, lines, li, lines_by_styles>>
    /\ UNCHANGED pipeVars
    /\ UNCHANGED lifeVars

\* end of the file: the extended pass starts (extended is True)
StartExtended ==
    /\ pc = "read"
    /\ pos > Len(file)
    /\ pc' = "next_line"
    /\ UNCHANGED <<meta, file, pos, section, styles, lines, li, lines_by_styles>>
    /\ UNCHANGED pipeVars
    /\ UNCHANGED lifeVars

(***************************************************************************)
(* The loop over self.lines and the lead-in / lead-out pass                *)
(***************************************************************************)
\* the key under which a line is filed in lines_by_styles
GroupKey(l) == l.style

\* lines_by_styles[key].append(line), n being the line's 1-based number
Filed(groups, key, n) ==
    [k \in DOMAIN groups \cup {key} |->
        IF k = key
        THEN (IF key \in DOMAIN groups THEN groups[key] ELSE <<>>) \o <<n>>
        ELSE groups[k]]

\* the next line has a style: it goes through the extended pipeline
BeginLine ==
    /\ pc = "next_line"
    /\ li < Len(lines)
    /\ lines[li + 1].styleref # None
    /\ lines_by_styles' = Filed(lines_by_styles, GroupKey(lines[li + 1]), li + 1)
    /\ line' = [lines[li + 1] EXCEPT !.styleref = Val(@)]
    /\ pc' = "extend"
    /\ UNCHANGED <<meta, vertical_kanji, font, words, tokens, syllable_data,
                   syls, chars, file, pos, section, styles, lines, li>>
    /\ UNCHANGED lifeVars

\* the next line has no style: only duration and text are set
SkipUnstyledLine ==
    /\ pc = "next_line"
    /\ li < Len(lines)
    /\ lines[li + 1].styleref = None
    /\ lines_by_styles' = Filed(lines_by_styles, GroupKey(lines[li + 1]), li + 1)
    /\ lines' = [lines EXCEPT ![li + 1] = TimedLine(@)]
    /\ li' = li + 1
    /\ UNCHANGED <<pc, meta, file, pos, section, styles>>
    /\ UNCHANGED pipeVars
    /\ UNCHANGED lifeVars

\* "play_res_x > 0 and play_res_y > 0" on an unset resolution
RaiseTypeError ==
    /\ pc = "line_pos"
    /\ ~ResolutionComparable
    /\ pc' = "TypeError"
    /\ UNCHANGED <<meta, vertical_kanji, font, line, words, tokens,
                   syllable_data, syls, chars>>
    /\ UNCHANGED loadVars
    /\ UNCHANGED lifeVars

\* the end of the loop body for a line with a style: the Line object of
\* self.lines holds what the pipeline computed
StoreLine ==
    /\ pc = "done"
    /\ li < Len(lines)
    /\ lines' = [lines EXCEPT ![li + 1] =
                    [line EXCEPT !.styleref = Some(@),
                                 !.words = Some(words),
                                 !.syls = Some(syls),
                                 !.chars = Some(chars)]]
    /\ li' = li + 1
    /\ pc' = "next_line"
    /\ words' = <<>>
    /\ syls' = <<>>
    /\ chars' = <<>>
    /\ UNCHANGED <<meta, vertical_kanji, font, line, tokens, syllable_data,
                   file, pos, section, styles, lines_by_styles>>
    /\ UNCHANGED lifeVars

\* the sentinel 1000.1 ms; lead-in and lead-out are in tenths of a ms
LeadSentinel == 10001
Tenths(ms) == 10 * ms

\* faulty variant: a line is put before the lines of equal start_time
RECURSIVE InsertedBeforeTies(_, _, _)
InsertedBeforeTies(sorted, n, ls) ==
    IF sorted = <<>> THEN <<n>>
    ELSE IF ls[Head(sorted)].start_time < ls[n].start_time
    THEN <<Head(sorted)>> \o InsertedBeforeTies(Tail(sorted), n, ls)
    ELSE <<n>> \o sorted

\* line n put into a list sorted by start_time, after the lines of equal
\* start_time (list.sort is stable)
RECURSIVE Inserted(_, _, _)
Inserted(sorted, n, ls) ==
    IF sorted = <<>> THEN <<n>>
    ELSE IF ls[Head(sorted)].start_time <= ls[n].start_time
    THEN <<Head(sorted)>> \o Inserted(Tail(sorted), n, ls)
    ELSE <<n>> \o sorted

\* lines_by_styles[style].sort(key=lambda x: x.start_time)
RECURSIVE SortedByStart(_, _)
SortedByStart(group, ls) ==
    IF group = <<>> THEN <<>>
    ELSE Inserted(SortedByStart(SubSeq(group, 1, Len(group) - 1), ls),
                  group[Len(group)], ls)

\* 1-based place of line n in a group
RECURSIVE PlaceIn(_, _)
PlaceIn(group, n) == IF Head(group) = n THEN 1 ELSE 1 + PlaceIn(Tail(group), n)

\* faulty variant: the gap is taken from the previous line's start
LeadInFromStart(group, k, ls) ==
    IF k = 1 THEN LeadSentinel
    ELSE Tenths(ls[group[k]].start_time - ls[group[k - 1]].start_time)

\* line.leadin of the k-th line of a sorted group
LeadIn(group, k, ls) ==
    IF k = 1 THEN LeadSentinel
    ELSE Tenths(ls[group[k]].start_time - ls[group[k - 1]].end_time)

\* line.leadout of the k-th line of a sorted group
LeadOut(group, k, ls) ==
    IF k = Len(group) THEN LeadSentinel
    ELSE Tenths(ls[group[k + 1]].start_time - ls[group[k]].end_time)

SortedGroups(groups, ls) ==
    [key \in DOMAIN groups |-> SortedByStart(groups[key], ls)]

\* the lines after "Add durations between dialogs", groups being sorted
WithLeads(ls, groups) ==
    [n \in 1..Len(ls) |->
        LET group == groups[GroupKey(ls[n])]
            k == PlaceIn(group, n)
        IN  [ls[n] EXCEPT !.leadin = Some(LeadIn(group, k, ls)),
                          !.leadout = Some(LeadOut(group, k, ls))]]

\* "Add durations between dialogs", after the last line
AddLeads ==
    /\ pc = "next_line"
    /\ li = Len(lines)
    /\ lines_by_styles' = SortedGroups(lines_by_styles, lines)
    /\ lines' = WithLeads(lines, SortedGroups(lines_by_styles, lines))
    /\ pc' = "loaded"
    /\ UNCHANGED <<meta, file, pos, section, styles, li>>
    /\ UNCHANGED pipeVars
    /\ UNCHANGED lifeVars

(***************************************************************************)
(* Input files                                                             *)
(***************************************************************************)
MaxEvents == 3

\* the 23 fields of a style record; the model reads name, spacing,
\* alignment and the three margins
StyleFields(name, al, ml, mr, mv, sp) ==
    <<name, "Arial", 20, "&H00FFFFFF", "&H000000FF", "&H00000000",
      "&H00000000", "0", "0", "0", "0", 100, 100, sp, 0, "1", 2, 2, al, ml,
      mr, mv, 1>>

\* the fields of an event record whose text holds no comma
EventFields(start, end, style, text) ==
    <<0, start, end, style, "", 0, 0, 0, "", text>>

StyleA == StyleFields("A", 5, 10, 10, 10, 1)
StyleB == StyleFields("B", 7, 0, 0, 20, 0)

\* {\k5}a {\k5}b
KaraokeText == KTag5 \o <<"a", " ">> \o KTag5 \o <<"b">>

InfoBlocks ==
    << <<>>,
       <<Header("Script Info"), Other, PlayResX(640), PlayResY(480)>>,
       <<Header("Script Info"), PlayResX(0), PlayResY(480)>>,
       <<Header("Script Info"), PlayResX(640)>>,
       <<Header("Aegisub Project Garbage"), PlayResY(480)>> >>

StyleBlocks ==
    << <<>>,
       <<Header("V4+ Styles"), Other, StyleLine(StyleA), StyleLine(StyleB)>>,
       <<Header("V4+ Styles"), StyleLine(SubSeq(StyleA, 1, 22))>>,
       <<Header("V4+ Styles"), StyleLine(StyleA), StyleLine(<<"B">>)>> >>

EventBlocks ==
    << <<>>,
       <<Header("Events"), Other,
         EventLine("Dialogue", EventFields(100, 350, "A", <<"a", " ", "W">>))>>,
       <<Header("Events"),
         EventLine("Dialogue", EventFields(100, 350, "A", KaraokeText)),
         EventLine("Dialogue", EventFields(200, 300, "X", <<"a">>)),
         EventLine("Comment", EventFields(50, 150, "B", <<"b">>))>>,
       <<Header("Events"),
         EventLine("Dialogue", EventFields(100, 350, "X", <<"a">>)),
         EventLine("Dialogue", SubSeq(EventFields(200, 300, "A", <<>>), 1, 9))>>,
       <<Header("Events"),
         EventLine("Dialogue", <<0, 100, 350>>)>>,
       <<Header("Events"),
         EventLine("Dialogue",
                   EventFields(100, 350, "X", <<"a">>) \o <<<<"b">>, <<>>>>)>> >>

\* a header without a branch in the reader, alone or followed by a line;
\* a line before any header; an extradata section
StrayBlocks ==
    << <<>>,
       <<Header("Fonts")>>,
       <<Header("Fonts"), Other>>,
       <<Other>>,
       <<Header("Aegisub Extradata"), Other>> >>

\* the blocks in file order, the stray block put at place w (0..3)
Assembled(info, sty, ev, stray, w) ==
    (IF w = 0 THEN stray ELSE <<>>) \o info
    \o (IF w = 1 THEN stray ELSE <<>>) \o sty
    \o (IF w = 2 THEN stray ELSE <<>>) \o ev
    \o (IF w = 3 THEN stray ELSE <<>>)

\* the events of the timing files: a style (A is defined, X and Y are not)
\* and one of three time spans, two of them starting together
TimedStyles == <<"A", "X", "Y">>
TimeSpans == << <<100, 150>>, <<100, 300>>, <<200, 250>> >>
TimedChoices == 1..(Len(TimedStyles) * Len(TimeSpans))

TimedEvent(c) ==
    LET span == TimeSpans[((c - 1) % Len(TimeSpans)) + 1]
        style == TimedStyles[((c - 1) \div Len(TimeSpans)) + 1]
    IN  EventLine("Dialogue", EventFields(span[1], span[2], style, <<"a">>))

TimedFile(choices) ==
    InfoBlocks[2] \o <<Header("V4+ Styles"), StyleLine(StyleA)>>
    \o <<Header("Events")>> \o [k \in 1..Len(choices) |-> TimedEvent(choices[k])]

\* the state when the constructor starts to read the file
BeforeReading ==
    /\ pc = "read"
    /\ NoCalls
    /\ NoPlayer
    /\ pos = 1
    /\ section = ""
    /\ meta = [play_res_x |-> None, play_res_y |-> None]
    /\ styles = <<>>
    /\ lines = <<>>
    /\ li = 0
    /\ lines_by_styles = <<>>
    /\ vertical_kanji = FALSE
    /\ font = [cw |-> Px(10), ch |-> Px(20), space |-> Px(4)]
    /\ line = None
    /\ words = <<>>
    /\ tokens = <<>>
    /\ syllable_data = <<>>
    /\ syls = <<>>
    /\ chars = <<>>

InitLoad ==
    /\ BeforeReading
    /\ \/ \E i \in 1..Len(InfoBlocks), s \in 1..Len(StyleBlocks),
             e \in 1..Len(EventBlocks), u \in 1..Len(StrayBlocks),
             w \in 0..3 :
             file = Assembled(InfoBlocks[i], StyleBlocks[s], EventBlocks[e],
                              StrayBlocks[u], w)
       \/ \E n \in 0..MaxEvents : \E choices \in [1..n -> TimedChoices] :
             file = TimedFile(choices)

NextLoad ==
    \/ ReadHeader
    \/ ReadInfo
    \/ ReadStyle
    \/ ReadEvent
    \/ ReadExtradata
    \/ RaiseUnexpectedSection
    \/ StartExtended
    \/ BeginLine
    \/ SkipUnstyledLine
    \/ ExtendLine
    \/ RaiseTypeError
    \/ PositionLine
    \/ AddWords
    \/ PositionWords
    \/ SplitTokens
    \/ ParseSyllables
    \/ AddSyls
    \/ PositionSyls
    \/ AddChars
    \/ PositionChars
    \/ StoreLine
    \/ AddLeads

SpecLoad == InitLoad /\ [][NextLoad]_vars

(***************************************************************************)
(* Output and preview: write_line, save, open_aegisub, open_mpv            *)
(***************************************************************************)
MaxCalls == 4

\* the values Meta.video takes: unset, a dummy video, a video file
DummyVideo == "?dummy:23.976:40000:1920:1080:47:163:254:"
VideoFile == "video.mkv"
Videos == {None, Some(DummyVideo), Some(VideoFile)}

\* self.meta.video.startswith("?dummy")
IsDummy(v) == v = DummyVideo

Players == {"aegisub", "mpv"}

\* what a call gave back: a return value or the exception it raised, and
\* the program it started ("" when none)
Outcome(ret, started) == [ret |-> ret, started |-> started]

Logged(op, o) == Append(log, [op |-> op, ret |-> o.ret, started |-> o.started])

\* the pipeline side is at rest: the constructor has returned
Constructed ==
    /\ pc = "loaded"
    /\ NoFile
    /\ meta = [play_res_x |-> None, play_res_y |-> None]
    /\ vertical_kanji = FALSE
    /\ font = [cw |-> Px(10), ch |-> Px(20), space |-> Px(4)]
    /\ line = None
    /\ words = <<>>
    /\ tokens = <<>>
    /\ syllable_data = <<>>
    /\ syls = <<>>
    /\ chars = <<>>

InitLife ==
    /\ Constructed
    /\ NoCalls
    /\ video \in Videos
    /\ platform \in {"win32", "linux"}
    /\ installed \in SUBSET Players

CanCall == pc = "loaded" /\ Len(log) < MaxCalls

restVars == <<pc, meta, loadVars, pipeVars, video, platform, installed>>

\* write_line(line) with a Line
WriteLine ==
    /\ CanCall
    /\ output' = output + 1
    /\ plines' = plines + 1
    /\ log' = Logged("write_line", Outcome("None", ""))
    /\ UNCHANGED <<saved, written>>
    /\ UNCHANGED restVars

\* write_line(line) with anything else
WriteLineTypeError ==
    /\ CanCall
    /\ log' = Logged("write_line", Outcome("TypeError", ""))
    /\ UNCHANGED <<saved, plines, output, written>>
    /\ UNCHANGED restVars

\* save(): the output list is written to path_output
Save ==
    /\ CanCall
    /\ written' = Some(output)
    /\ saved' = TRUE
    /\ log' = Logged("save", Outcome("None", ""))
    /\ UNCHANGED <<plines, output>>
    /\ UNCHANGED restVars

\* save() when path_output cannot be opened for writing
SaveOSError ==
    /\ CanCall
    /\ log' = Logged("save", Outcome("OSError", ""))
    /\ UNCHANGED <<saved, plines, output, written>>
    /\ UNCHANGED restVars

\* faulty variant: Aegisub is started whether or not the output was saved
AegisubOutcomeUnchecked(is_saved) ==
    IF platform = "win32" THEN Outcome("0", "startfile")
    ELSE IF "aegisub" \in installed THEN Outcome("0", "aegisub")
    ELSE Outcome("-1", "")

\* the body of open_aegisub
AegisubOutcome(is_saved) ==
    IF ~is_saved THEN Outcome("-1", "")
    ELSE IF platform = "win32" THEN Outcome("0", "startfile")
    ELSE IF "aegisub" \in installed THEN Outcome("0", "aegisub")
    ELSE Outcome("-1", "")

OpenAegisub ==
    /\ CanCall
    /\ log' = Logged("open_aegisub", AegisubOutcome(saved))
    /\ UNCHANGED <<saved, plines, output, written>>
    /\ UNCHANGED restVars

\* the body of open_mpv; video_path is "" when not given
MpvOutcome(is_saved, video_path) ==
    IF ~is_saved THEN Outcome("-1", "")
    ELSE IF video = None THEN Outcome("AttributeError", "")
    ELSE IF IsDummy(Val(video)) /\ video_path = "" THEN Outcome("-1", "")
    ELSE IF "mpv" \in installed THEN Outcome("0", "mpv")
    ELSE Outcome("-1", "")

OpenMpv ==
    /\ CanCall
    /\ \E video_path \in {"", VideoFile} :
          log' = Logged("open_mpv", MpvOutcome(saved, video_path))
    /\ UNCHANGED <<saved, plines, output, written>>
    /\ UNCHANGED restVars

NextLife ==
    \/ WriteLine
    \/ WriteLineTypeError
    \/ Save
    \/ SaveOSError
    \/ OpenAegisub
    \/ OpenMpv

SpecLife == InitLife /\ [][NextLife]_vars

(***************************************************************************)
(* Properties                                                              *)
(***************************************************************************)
WordsBuilt == pc \notin {"extend", "line_pos", "words"}
TokensBuilt == pc \in {"syl_data", "syls", "syl_pos", "chars", "char_pos", "done"}
SylsBuilt == pc \in {"syl_pos", "chars", "char_pos", "done"}
CharsBuilt == pc \in {"char_pos", "done"}

\* every "{" is closed by a "}" before the next "{", and no "}" stands alone
RECURSIVE BalancedFrom(_, _, _)
BalancedFrom(s, p, open) ==
    IF p > Len(s) THEN ~open
    ELSE IF s[p] = "{" THEN ~open /\ BalancedFrom(s, p + 1, TRUE)
    ELSE IF s[p] = "}" THEN open /\ BalancedFrom(s, p + 1, FALSE)
    ELSE BalancedFrom(s, p + 1, open)

BalancedNonNested(s) == BalancedFrom(s, 1, FALSE)

Rejoin(toks) ==
    Concat([k \in 1..Len(toks) |->
               IF toks[k].type = "tags"
               THEN <<"{">> \o toks[k].value \o <<"}">>
               ELSE toks[k].value])

\* C1: for a raw text with balanced, non-nested groups, the tokens joined in
\* order, tag tokens re-wrapped in braces, give back the raw text
C1_RoundTrip ==
    (TokensBuilt /\ BalancedNonNested(line.raw_text))
        => Rejoin(tokens) = line.raw_text

C1_Witness ==
    /\ TokensBuilt
    /\ BalancedNonNested(line.raw_text)
    /\ Len(tokens) >= 3
    /\ \E k \in 1..Len(tokens) : tokens[k].type = "tags" /\ tokens[k].value # <<>>
    /\ \E k \in 1..Len(tokens) : tokens[k].type = "text"

\* C2: text before the first karaoke tag is a syllable of its own without
\* karaoke tag (duration 0, start = end = 0), and Hello {\k50}world gives
\* the two syllables Hello (0 ms) and world (500 ms, from 0 to 500)
C2_LeadingTextOwnSyllable ==
    /\ (/\ pc = "done"
        /\ Len(tokens) >= 2
        /\ tokens[1].type = "text"
        /\ tokens[2].type = "tags"
        /\ KTags(tokens[2].value) # <<>>)
       => /\ Len(syls) >= 2
          /\ syllable_data[1].k_tag = None
          /\ syls[1].text = Strip(tokens[1].value)
          /\ syls[1].duration = 0
          /\ syls[1].start_time = 0
          /\ syls[1].end_time = 0
    /\ (pc = "done" /\ line.raw_text = HelloWorld)
       => /\ Len(syls) = 2
          /\ syls[1].text = <<"H", "e", "l", "l", "o">>
          /\ syls[1].duration = 0
          /\ syls[2].text = <<"w", "o", "r", "l", "d">>
          /\ syls[2].duration = 500
          /\ syls[2].start_time = 0
          /\ syls[2].end_time = 500

NoKaraokeTag ==
    \A k \in 1..Len(tokens) :
        tokens[k].type = "tags" => KTags(tokens[k].value) = <<>>

Extent(el) == el.prespace + Len(el.text) + el.postspace

ExtentSum(els) == SumSeq([k \in 1..Len(els) |-> Extent(els[k])])

\* C3: a line without karaoke tag has exactly one syllable, of duration 0,
\* whose prespace + text + postspace covers the whole stripped text
C3_OneSyllableWithoutKaraoke ==
    (pc = "done" /\ NoKaraokeTag)
        => /\ Len(syls) = 1
           /\ syls[1].duration = 0
           /\ Extent(syls[1]) = Len(Val(line.text))
           /\ syls[1].text = Strip(Val(line.text))

WordIndices == 0..(Len(words) - 1)
SylIndices == 0..(Len(syls) - 1)

\* C4: every syllable's word_i and every char's word_i is the index of a
\* word of the line, and every char's syl_i the index of a syllable
C4_ValidParentIndices ==
    pc = "done"
        => /\ \A k \in 1..Len(syls) : syls[k].word_i \in WordIndices
           /\ \A k \in 1..Len(chars) :
                 /\ chars[k].word_i \in WordIndices
                 /\ chars[k].syl_i # None
                 /\ Val(chars[k].syl_i) \in SylIndices

\* C5: the number of chars is the sum of prespace + len(text) + postspace
\* over the syllables when there are any, over the words otherwise
C5_CharCount ==
    CharsBuilt
        => Len(chars) = IF syls # <<>> THEN ExtentSum(syls) ELSE ExtentSum(words)

C5_Witness ==
    /\ CharsBuilt
    /\ Len(syls) >= 2
    /\ \E k \in 1..Len(syls) : syls[k].postspace > 0 /\ syls[k].text # <<>>
    /\ Len(chars) >= 3

\* C6: syllable times start at 0 and chain: end = start + duration,
\* start <= end, each start is the previous end, and the duration is 10
\* times the centiseconds of the syllable's karaoke tag, 0 without one
C6_TimingChain ==
    SylsBuilt
        => /\ syls # <<>> => syls[1].start_time = 0
           /\ \A k \in 1..Len(syls) :
                 /\ syls[k].end_time = syls[k].start_time + syls[k].duration
                 /\ syls[k].start_time <= syls[k].end_time
                 /\ k > 1 => syls[k].start_time = syls[k - 1].end_time
                 /\ syls[k].duration =
                       IF syllable_data[k].k_tag = None THEN 0
                       ELSE 10 * ParseInt(Val(syllable_data[k].k_duration))

C6_Witness ==
    /\ SylsBuilt
    /\ Len(syls) >= 3
    /\ syls[2].duration > 0
    /\ syls[3].start_time > syls[2].start_time
    /\ syls[2].start_time > 0

\* 0-based offset in line.text of the first text character of syllable k:
\* the texts of the syllable records laid end to end are line.text
SylTextStart(k) ==
    SumSeq([j \in 1..(k - 1) |-> Len(syllable_data[j].text)])
        + LeadingSpaces(syllable_data[k].text)

\* 0-based offset in line.text of the first character of word w (1-based)
WordSpanStart(w) == ExtentSum(SubSeq(words, 1, w - 1)) + words[w].prespace

InWordSpan(w, off) ==
    WordSpanStart(w) <= off /\ off < WordSpanStart(w) + Len(words[w].text)

\* C7: a syllable with non-empty text has the word_i of the word whose span
\* in the stripped text holds the syllable's first text character
C7_SyllableInItsWord ==
    pc = "done"
        => \A k \in 1..Len(syls) :
              syls[k].text # <<>>
                  => \E w \in 1..Len(words) :
                        /\ InWordSpan(w, SylTextStart(k))
                        /\ syls[k].word_i = words[w].i

\* number of maximal runs of non-whitespace characters of t
RunCount(t) ==
    Cardinality({p \in 1..Len(t) :
                    ~IsSpace(t[p]) /\ (p = 1 \/ IsSpace(t[p - 1]))})

WordsAreRuns ==
    /\ Len(words) = RunCount(Val(line.text))
    /\ \A w \in 1..Len(words) :
          /\ words[w].text # <<>>
          /\ \A p \in 1..Len(words[w].text) : ~IsSpace(words[w].text[p])
          /\ WordSpanStart(w) + Len(words[w].text) <= Len(Val(line.text))
          /\ words[w].text = SubSeq(Val(line.text), WordSpanStart(w) + 1,
                                    WordSpanStart(w) + Len(words[w].text))

\* C8 as stated: the triples cover the entire stripped text, whatever it is,
\* and there is one triple per maximal run of non-whitespace
C8_WordsCoverText ==
    WordsBuilt => (WordsAreRuns /\ ExtentSum(words) = Len(Val(line.text)))

\* C8, amended: one triple per maximal run of non-whitespace; the triples
\* cover the entire stripped text when it holds a non-whitespace character,
\* and a text without one (empty or whitespace-only) yields no triple
C8_WordsCoverNonBlankText ==
    WordsBuilt
        => /\ WordsAreRuns
           /\ words # <<>> => ExtentSum(words) = Len(Val(line.text))
           /\ words = <<>>
                 => \A p \in 1..Len(Val(line.text)) : IsSpace(Val(line.text)[p])

C8_Witness ==
    /\ WordsBuilt
    /\ Len(words) >= 2
    /\ words[1].prespace > 0
    /\ words[2].postspace > 0
    /\ ExtentSum(words) = Len(Val(line.text))

\* the margin in force: the line's own when non-zero, else the style's
MarginInForce(own, of_style) == IF own # 0 THEN own ELSE of_style

\* C9: with a positive frame the line's position set follows the alignment:
\* columns 1,4,7 / 2,5,8 / 3,6,9 and rows 1,2,3 / 4,5,6 / 7,8,9, with the
\* line's own margins when non-zero and the style's otherwise; alignment 5
\* on 1920x1080 with w = 200, h = 50 and zero margins gives left 860,
\* center 960, right 1060, x 960, top 515, middle 540, bottom 565, y 540
C9_LinePosition ==
    (pc \notin {"extend", "line_pos"} /\ HasResolution)
        => LET W == play_res_x
               H == play_res_y
               w == Val(line.width)
               h == Val(line.height)
               al == line.styleref.alignment
               mL == MarginInForce(line.margin_l, line.styleref.margin_l)
               mR == MarginInForce(line.margin_r, line.styleref.margin_r)
               mV == MarginInForce(line.margin_v, line.styleref.margin_v)
               left == Val(line.left)
               top == Val(line.top)
           IN  /\ al \in {1, 4, 7} => left = mL /\ line.x = line.left
               /\ al \in {2, 5, 8}
                     => /\ 2 * left = W - w + mL - mR
                        /\ line.x = line.center
               /\ al \in {3, 6, 9} => left = W - mR - w /\ line.x = line.right
               /\ al \in {1, 2, 3} => top = H - mV - h /\ line.y = line.bottom
               /\ al \in {4, 5, 6} => 2 * top = H - h /\ line.y = line.middle
               /\ al \in {7, 8, 9} => top = mV /\ line.y = line.top
               /\ 2 * Val(line.center) = 2 * left + w
               /\ Val(line.right) = left + w
               /\ 2 * Val(line.middle) = 2 * top + h
               /\ Val(line.bottom) = top + h
               /\ (/\ al = 5 /\ W = Px(1920) /\ H = Px(1080)
                   /\ w = Px(200) /\ h = Px(50)
                   /\ mL = 0 /\ mR = 0 /\ mV = 0)
                  => /\ left = Px(860) /\ Val(line.center) = Px(960)
                     /\ Val(line.right) = Px(1060) /\ Val(line.x) = Px(960)
                     /\ top = Px(515) /\ Val(line.middle) = Px(540)
                     /\ Val(line.bottom) = Px(565) /\ Val(line.y) = Px(540)

C9_Witness ==
    /\ pc = "words"
    /\ line.styleref.alignment = 5
    /\ meta = FullHD
    /\ line.width = Some(Px(200))
    /\ line.height = Some(Px(50))
    /\ line.margin_l = 0 /\ line.margin_r = 0 /\ line.margin_v = 0
    /\ line.styleref.margin_l = 0 /\ line.styleref.margin_r = 0
    /\ line.styleref.margin_v = 0
    /\ line.left = Some(Px(860))
    /\ line.top = Some(Px(515))

SharesLineRow(els) ==
    \A k \in 1..Len(els) :
        /\ els[k].top = line.top
        /\ els[k].middle = line.middle
        /\ els[k].bottom = line.bottom

\* C10: words, syllables and chars are stacked top-to-bottom only when the
\* alignment is 4, 5 or 6 and vertical_kanji is enabled; otherwise every
\* level shares the line's top, middle and bottom
C10_StackedOnlyWhenEnabled ==
    (pc = "done" /\ HasResolution
       /\ ~(line.styleref.alignment \in {4, 5, 6} /\ vertical_kanji))
        => /\ SharesLineRow(words)
           /\ SharesLineRow(syls)
           /\ SharesLineRow(chars)

\* the chars of the line are laid out by the vertical-stack branch
CharsStacked ==
    /\ pc = "done"
    /\ HasResolution
    /\ vertical_kanji
    /\ alignment \in {4, 5, 6}
    /\ chars # <<>>

\* C11: with vertical_kanji, alignment 4, 5 or 6 and a positive frame of
\* height H the k-th char's top is H/2 - S/2 plus the heights of the chars
\* before it, S being the sum of all char heights (three chars of height h
\* have tops h apart); the line's height becomes S, its width the maximum
\* char width, its top the first char's top, its bottom the last char's bottom
C11_CharsStackedFromCentre ==
    CharsStacked
        => LET H == play_res_y
               S == SumSeq(Heights(chars))
               n == Len(chars)
           IN  /\ \A k \in 1..n :
                     /\ 2 * Val(chars[k].top)
                           = H - S + 2 * SumSeq(Heights(SubSeq(chars, 1, k - 1)))
                     /\ Val(chars[k].bottom) = Val(chars[k].top) + chars[k].height
               /\ (n = 3 /\ \A k \in 1..n : chars[k].height = chars[1].height)
                     => /\ Val(chars[2].top) = Val(chars[1].top) + chars[1].height
                        /\ Val(chars[3].top)
                              = Val(chars[1].top) + 2 * chars[1].height
                        /\ line.height = Some(3 * chars[1].height)
               /\ line.height = Some(S)
               /\ line.width = Some(MaxSeq(Widths(chars)))
               /\ line.top = chars[1].top
               /\ line.bottom = chars[n].bottom

C11_Witness ==
    /\ CharsStacked
    /\ alignment = 5
    /\ Len(chars) = 3
    /\ chars[1].height > 0
    /\ Val(chars[3].top) = Val(chars[1].top) + 2 * chars[1].height
    /\ line.height = Some(3 * chars[1].height)
    /\ chars[3].width > chars[1].width

\* C12: in the vertical-stack branch of the chars the line's recomputed box
\* bounds every char, and a char of maximal width touches line.left and
\* line.right, whatever the line and style margins
C12_LineBoxBoundsChars ==
    CharsStacked
        => \A k \in 1..Len(chars) :
              /\ Val(line.left) <= Val(chars[k].left)
              /\ Val(chars[k].right) <= Val(line.right)
              /\ Val(line.top) <= Val(chars[k].top)
              /\ Val(chars[k].bottom) <= Val(line.bottom)
              /\ chars[k].width = MaxSeq(Widths(chars))
                    => /\ chars[k].left = line.left
                       /\ chars[k].right = line.right

\* C20: a syllable's tags hold no karaoke tag
C20_TagsWithoutKaraoke ==
    SylsBuilt => \A k \in 1..Len(syls) : KTags(syls[k].tags) = <<>>

PositionFields == DOMAIN NoPos

Unpositioned(el) == \A f \in PositionFields : el[f] = None

AllUnpositioned(els) == \A k \in 1..Len(els) : Unpositioned(els[k])

\* both PlayResX and PlayResY are set and positive
PositiveResolution ==
    /\ meta.play_res_x # None
    /\ meta.play_res_y # None
    /\ HasResolution

\* C13: with the frame resolution unset or non-positive the load does not
\* fail, no position field is set on any line, word, syllable or char, and
\* width and height are still measured at every level
C13_NoResolutionNoPositions ==
    /\ pc # "TypeError"
    /\ (pc = "loaded" /\ ~PositiveResolution)
          => \A n \in 1..Len(lines) :
                /\ Unpositioned(lines[n])
                /\ lines[n].styleref # None
                      => /\ lines[n].width # None
                         /\ lines[n].height # None
                         /\ lines[n].words # None
                         /\ lines[n].syls # None
                         /\ lines[n].chars # None
                         /\ AllUnpositioned(Val(lines[n].words))
                         /\ AllUnpositioned(Val(lines[n].syls))
                         /\ AllUnpositioned(Val(lines[n].chars))
                         /\ Val(lines[n].width)
                               = TextWidth(Val(lines[n].text))
                         /\ \A k \in 1..Len(Val(lines[n].chars)) :
                               Val(lines[n].chars)[k].width
                                  = TextWidth(Val(lines[n].chars)[k].text)

\* the fields the extended pipeline computes from the style
StyleDerivedFields ==
    {"width", "height", "ascent", "descent", "internal_leading",
     "external_leading", "words", "syls", "chars"} \cup PositionFields

\* C14: a line whose style name matches no parsed style has a null styleref
\* and, once loaded, its width, height, font metrics, position fields,
\* words, syls and chars are unset; it does not make the load fail, and
\* the lines with a style are extended as usual
C14_UnknownStyleLineSkipped ==
    /\ \A n \in 1..Len(lines) :
          lines[n].style \notin DOMAIN styles => lines[n].styleref = None
    /\ pc = "TypeError" => lines[li + 1].styleref # None
    /\ pc = "loaded"
          => \A n \in 1..Len(lines) :
                IF lines[n].styleref = None
                THEN \A f \in StyleDerivedFields : lines[n][f] = None
                ELSE /\ \A f \in StyleDerivedFields \ PositionFields :
                          lines[n][f] # None
                     /\ PositiveResolution => ~Unpositioned(lines[n])

C14_Witness ==
    /\ pc = "loaded"
    /\ PositiveResolution
    /\ \E n \in 1..Len(lines) :
          /\ lines[n].styleref = None
          /\ lines[n].style \notin DOMAIN styles
          /\ lines[n].words = None
          /\ lines[n].text # None
    /\ \E n \in 1..Len(lines) :
          /\ lines[n].styleref # None
          /\ lines[n].left # None
          /\ Len(Val(lines[n].syls)) >= 2

\* the file holds a section header that the reader has no branch for
HasUnknownHeader ==
    \E k \in 1..Len(file) :
        file[k].kind = "header" /\ file[k].name \notin KnownSections

\* C15: a file with a section header of an unknown name is never loaded,
\* wherever the header stands and whether or not a line follows it
C15_UnknownSectionAborts ==
    HasUnknownHeader => pc \notin {"next_line", "loaded"}

\* the section in force when file line k is read
RECURSIVE SectionAt(_)
SectionAt(k) ==
    IF k <= 1 THEN ""
    ELSE IF file[k - 1].kind = "header" THEN file[k - 1].name
    ELSE SectionAt(k - 1)

\* style records of the styles section, event records of the events section
IsStyleRecord(k) == file[k].kind = "Style" /\ SectionAt(k) = "V4+ Styles"
IsEventRecord(k) == file[k].kind \in EventKinds /\ SectionAt(k) = "Events"

\* C16: a style record with fewer than 23 fields and an event record with
\* fewer than 10 fields are skipped: no error is raised and no Style or
\* Line is created for them
C16_ShortRecordsSkipped ==
    /\ pc # "IndexError"
    /\ pc = "read"
          => /\ Len(lines)
                  = Cardinality({k \in 1..(pos - 1) :
                       IsEventRecord(k) /\ Len(file[k].fields) >= 10})
             /\ DOMAIN styles
                  = {file[k].fields[1] : k \in
                       {j \in 1..(pos - 1) :
                           IsStyleRecord(j) /\ Len(file[j].fields) >= 23}}

InGroup(n, key) ==
    \E k \in 1..Len(lines_by_styles[key]) : lines_by_styles[key][k] = n

SameGroup(a, b) ==
    \E key \in DOMAIN lines_by_styles : InGroup(a, key) /\ InGroup(b, key)

\* C17: in the lead-in / lead-out pass the lines without a known style form
\* one common group, whatever names they carry, and the lines with a known
\* style are grouped by style name
C17_UnknownStylesOneGroup ==
    pc = "loaded"
        => \A a, b \in 1..Len(lines) :
              /\ (lines[a].styleref = None /\ lines[b].styleref = None)
                    => SameGroup(a, b)
              /\ (lines[a].styleref # None /\ lines[b].styleref # None)
                    => (SameGroup(a, b) <=> lines[a].style = lines[b].style)

\* C18: every line is in the group of its style name; a group is in
\* ascending order of start_time; its first line has leadin 1000.1 and its
\* last line leadout 1000.1; every other leadin is start_time minus the
\* previous line's end_time and every other leadout the next line's
\* start_time minus end_time, negative or not
C18_LeadInLeadOut ==
    pc = "loaded"
        => /\ \A n \in 1..Len(lines) :
                 /\ lines[n].style \in DOMAIN lines_by_styles
                 /\ InGroup(n, lines[n].style)
           /\ \A key \in DOMAIN lines_by_styles :
                 LET g == lines_by_styles[key] IN
                 \A k \in 1..Len(g) :
                    /\ lines[g[k]].style = key
                    /\ k > 1 => lines[g[k - 1]].start_time
                                   <= lines[g[k]].start_time
                    /\ lines[g[k]].leadin =
                          IF k = 1 THEN Some(10001)
                          ELSE Some(10 * (lines[g[k]].start_time
                                          - lines[g[k - 1]].end_time))
                    /\ lines[g[k]].leadout =
                          IF k = Len(g) THEN Some(10001)
                          ELSE Some(10 * (lines[g[k + 1]].start_time
                                          - lines[g[k]].end_time))

C18_Witness ==
    /\ pc = "loaded"
    /\ \E key \in DOMAIN lines_by_styles :
          LET g == lines_by_styles[key] IN
          /\ Len(g) = 3
          /\ g # <<1, 2, 3>>
          /\ Val(lines[g[2]].leadin) < 0
          /\ Val(lines[g[2]].leadout) > 0
          /\ lines[g[1]].leadin = Some(10001)
          /\ lines[g[3]].leadout = Some(10001)

\* lines a and b have the same style and the same start_time
Tied(a, b) ==
    /\ lines[a].style = lines[b].style
    /\ lines[a].start_time = lines[b].start_time

\* C19: of two lines of one style group with the same start_time, the one
\* that comes first in the file is the previous line of the other
C19_TiesKeepFileOrder ==
    pc = "loaded"
        => \A a, b \in 1..Len(lines) :
              (/\ a < b
               /\ Tied(a, b)
               /\ ~\E c \in (a + 1)..(b - 1) : Tied(a, c))
                 => LET g == lines_by_styles[lines[a].style] IN
                    /\ PlaceIn(g, b) = PlaceIn(g, a) + 1
                    /\ lines[b].leadin
                          = Some(10 * (lines[b].start_time - lines[a].end_time))
                    /\ lines[a].leadout
                          = Some(10 * (lines[b].start_time - lines[a].end_time))

C19_Witness ==
    /\ pc = "loaded"
    /\ Len(lines) >= 2
    /\ Tied(1, 2)
    /\ lines[1].end_time > lines[2].end_time
    /\ lines[2].leadin = Some(10 * (lines[2].start_time - lines[1].end_time))
    /\ lines[1].leadin = Some(10001)

(***************************************************************************)
(* Left-to-right layout of words and syllables                             *)
(***************************************************************************)
\* the elements follow one another from line.left: an element starts after
\* the previous one's right edge, the style spacing, and one space gap per
\* whitespace character between the two texts; all sit on the line's row
HorizontalChain(els) ==
    LET gap == space_width + style_spacing IN
    \A k \in 1..Len(els) :
        /\ els[k].left =
              Some(IF k = 1
                   THEN Val(line.left) + els[1].prespace * gap
                   ELSE Val(els[k - 1].right) + style_spacing
                          + (els[k - 1].postspace + els[k].prespace) * gap)
        /\ els[k].top = line.top
        /\ els[k].middle = line.middle
        /\ els[k].bottom = line.bottom
        /\ els[k].y = line.y

\* C22: in left-to-right layout with a positive frame, the first word's
\* (syllable's) left is line.left plus its prespace gaps, each later one's
\* left is the previous right plus the style spacing plus the gaps of the
\* previous postspace and its own prespace, and every word (syllable) has
\* the line's top, middle, bottom and y
C22_LeftToRightChain ==
    (pc = "done" /\ HasResolution)
        => /\ WordsLeftToRight => HorizontalChain(words)
           /\ LeftToRight => HorizontalChain(syls)

C22_Witness ==
    /\ pc = "done"
    /\ HasResolution
    /\ WordsLeftToRight
    /\ Len(words) = 2
    /\ words[1].prespace > 0
    /\ words[1].postspace > 0
    /\ Len(syls) = 3
    /\ syls[1].postspace > 0
    /\ syls[2].prespace > 0
    /\ Val(syls[2].left) > Val(syls[1].right) + style_spacing
    /\ Val(words[2].left) > Val(words[1].right) + style_spacing
    /\ Val(line.left) > 0

(***************************************************************************)
(* Chars derived from syllables                                            *)
(***************************************************************************)
\* 1-based place in line.chars of the char at 0-based offset j of syllable s
CharPlace(s, j) == ExtentSum(SubSeq(syls, 1, s - 1)) + j + 1

\* C23: when a line has syllables its chars come syllable by syllable in
\* syllable order, their i runs 0, 1, 2, ... without gaps, and each char has
\* the start_time, end_time, duration, inline_fx and word_i of its syllable,
\* syl_i the syllable's index and syl_char_i its offset inside the
\* syllable's prespace + text + postspace
C23_CharsFollowSyllables ==
    (CharsBuilt /\ syls # <<>>)
        => /\ \A k \in 1..Len(chars) : chars[k].i = k - 1
           /\ Len(chars) = ExtentSum(syls)
           /\ \A s \in 1..Len(syls) :
                 \A j \in 0..(Extent(syls[s]) - 1) :
                    LET c == chars[CharPlace(s, j)] IN
                    /\ c.syl_i = Some(syls[s].i)
                    /\ syls[s].i = s - 1
                    /\ c.syl_char_i = j
                    /\ c.text = <<ElText(syls[s])[j + 1]>>
                    /\ c.start_time = syls[s].start_time
                    /\ c.end_time = syls[s].end_time
                    /\ c.duration = syls[s].duration
                    /\ c.inline_fx = syls[s].inline_fx
                    /\ c.word_i = syls[s].word_i

C23_Witness ==
    /\ CharsBuilt
    /\ \E s \in 2..Len(syls) :
          /\ Extent(syls[s]) >= 2
          /\ syls[s].start_time > 0
          /\ syls[s].duration > 0
          /\ chars[CharPlace(s, 1)].syl_char_i = 1
          /\ chars[CharPlace(s, 1)].i > 1
          /\ chars[CharPlace(s, 1)].syl_i = Some(s - 1)
          /\ chars[CharPlace(s, 1)].start_time = syls[s].start_time
    /\ \E k \in 1..Len(chars) : chars[k].inline_fx # <<>>
    /\ \E k \in 1..Len(chars) : chars[k].word_i > 0

(***************************************************************************)
(* Syllable extents and the stripped text                                  *)
(***************************************************************************)
\* C24: for every syllable prespace + len(text) + postspace is the length
\* of the raw text run it was built from, whitespace-only runs included, so
\* the number of chars of the line is the length of its stripped text
C24_ExtentIsRunLength ==
    CharsBuilt
        => /\ \A k \in 1..Len(syls) :
                 Extent(syls[k]) = Len(syllable_data[k].text)
           /\ Len(chars) = Len(Val(line.text))

(***************************************************************************)
(* Tags kept by the syllable builder                                       *)
(***************************************************************************)
\* the contents of the tag tokens, in order, laid end to end
TagTokenText(toks) ==
    Concat([k \in 1..Len(toks) |->
               IF toks[k].type = "tags" THEN toks[k].value ELSE <<>>])

SylTagText(ss) == Concat([k \in 1..Len(ss) |-> ss[k].tags])

\* C25: no override-tag text is dropped: for a line with at least one
\* syllable the tags fields of the syllables in order, laid end to end, are
\* the contents of all tag tokens of the line in order
C25_NoTagDropped ==
    (SylsBuilt /\ syls # <<>>) => SylTagText(syls) = TagTokenText(tokens)

\* index of the last text token, 0 when there is none
RECURSIVE LastTextAt(_)
LastTextAt(k) ==
    IF k = 0 THEN 0
    ELSE IF tokens[k].type = "text" THEN k ELSE LastTextAt(k - 1)

LastText == LastTextAt(Len(tokens))

HasKaraoke(k) == tokens[k].type = "tags" /\ KTags(tokens[k].value) # <<>>

\* the last text token closes a syllable (a karaoke tag stands in the tag
\* tokens right before it) and no karaoke tag follows it
TrailingTagsUnattached ==
    /\ LastText > 0
    /\ \E k \in 1..(LastText - 1) :
          /\ HasKaraoke(k)
          /\ \A j \in (k + 1)..(LastText - 1) : tokens[j].type = "tags"
    /\ \A k \in (LastText + 1)..Len(tokens) : ~HasKaraoke(k)

\* C25 amended: the tags fields of the syllables in order, laid end to end,
\* are the contents of the tag tokens in order, except that the tag tokens
\* after the last text token are left out when that text closed a syllable
\* and none of them holds a karaoke tag
C25_NoTagDroppedButTrailing ==
    (SylsBuilt /\ syls # <<>>)
        => SylTagText(syls) =
              TagTokenText(IF TrailingTagsUnattached
                           THEN SubSeq(tokens, 1, LastText)
                           ELSE tokens)

C25_Witness ==
    /\ SylsBuilt
    /\ Len(syls) >= 2
    /\ ~TrailingTagsUnattached
    /\ tokens[Len(tokens)].type = "tags"
    /\ \E k \in 1..Len(tokens) :
          tokens[k].type = "tags" /\ ~HasKaraoke(k)
    /\ \E k \in 1..Len(syls) :
          syls[k].text # <<>> /\ Len(syls[k].tags) > 3

(***************************************************************************)
(* One syllable per karaoke tag                                            *)
(***************************************************************************)
\* the karaoke tags of the line in order: those of its tag tokens
RECURSIVE KaraokeTagsFrom(_)
KaraokeTagsFrom(k) ==
    IF k > Len(tokens) THEN <<>>
    ELSE (IF tokens[k].type = "tags"
          THEN LET tv == tokens[k].value
                   ms == KTags(tv)
               IN  [j \in 1..Len(ms) |->
                       [tag |-> SubSeq(tv, ms[j].start, ms[j].end - 1),
                        cs |-> ParseInt(SubSeq(tv, ms[j].dstart,
                                               ms[j].dend - 1))]]
          ELSE <<>>)
         \o KaraokeTagsFrom(k + 1)

KaraokeTags == KaraokeTagsFrom(1)

HasKTag(d) == d.k_tag # None

\* C26: every karaoke tag of a line gives exactly one syllable that carries
\* it: the syllables with a karaoke tag carry, in order, the karaoke tags
\* of the line, there are as many of them as karaoke tags, and the last
\* syllable ends at 10 times the sum of all karaoke durations
C26_OneSyllablePerKaraokeTag ==
    SylsBuilt
        => LET carried == SelectSeq(syllable_data, HasKTag)
               ks == KaraokeTags
           IN  /\ Len(syls) = Len(syllable_data)
               /\ Len(carried) = Len(ks)
               /\ \A j \in 1..Len(carried) : carried[j].k_tag = Some(ks[j].tag)
               /\ syls # <<>>
                     => syls[Len(syls)].end_time
                           = 10 * SumSeq([j \in 1..Len(ks) |-> ks[j].cs])

C26_Witness ==
    /\ SylsBuilt
    /\ Len(KaraokeTags) >= 3
    /\ Len(syls) = Len(KaraokeTags)
    /\ \E k \in 1..Len(syls) : syls[k].text = <<>>
    /\ \E k \in 1..Len(tokens) :
          tokens[k].type = "tags" /\ Len(KTags(tokens[k].value)) >= 2
    /\ tokens[Len(tokens)].type = "tags"
    /\ syls[Len(syls)].end_time >= 300

(***************************************************************************)
(* Word index along the syllables                                          *)
(***************************************************************************)
\* C27: within a line word_i never decreases from one syllable to the next
C27_WordIndexMonotone ==
    SylsBuilt
        => \A k \in 2..Len(syls) : syls[k - 1].word_i <= syls[k].word_i

(***************************************************************************)
(* Words imply syllables                                                   *)
(***************************************************************************)
\* C28: a line with a resolved style that has a word has a syllable, so
\* the chars are derived from the words only when there are neither words
\* nor syllables, and every char has a syl_i
C28_WordsImplySyllables ==
    CharsBuilt
        => /\ words # <<>> => syls # <<>>
           /\ syls = <<>> => (words = <<>> /\ chars = <<>>)
           /\ \A k \in 1..Len(chars) : chars[k].syl_i # None

C28_Witness ==
    /\ CharsBuilt
    /\ NoKaraokeTag
    /\ Len(words) >= 2
    /\ Len(syls) = 1
    /\ Len(chars) >= 3
    /\ \A k \in 1..Len(chars) : chars[k].syl_i = Some(0)
    /\ \E k \in 1..Len(tokens) : tokens[k].type = "tags"

(***************************************************************************)
(* Preview only after save                                                 *)
(***************************************************************************)
Opens == {"open_aegisub", "open_mpv"}

\* the k-th call was a save that wrote the file
SavedAt(k) == log[k].op = "save" /\ log[k].ret = "None"

\* C21: in any sequence of write_line, save, open_aegisub and open_mpv
\* calls on one object, an open_aegisub or open_mpv call made before the
\* first save returns -1 and starts no program, and once a save has been
\* made the object stays saved whatever is called next
C21_OpenOnlyAfterSave ==
    /\ \A k \in 1..Len(log) :
          (log[k].op \in Opens /\ \A j \in 1..(k - 1) : ~SavedAt(j))
              => (log[k].ret = "-1" /\ log[k].started = "")
    /\ (\E k \in 1..Len(log) : SavedAt(k)) => saved

C21_Witness ==
    /\ Len(log) = 4
    /\ log[1].op = "open_aegisub"
    /\ log[1].ret = "-1"
    /\ log[2].op = "save"
    /\ log[2].ret = "None"
    /\ log[3].op = "write_line"
    /\ log[4].op = "open_aegisub"
    /\ log[4].ret = "0"
    /\ log[4].started = "aegisub"
    /\ saved
    /\ plines = 1
    /\ written = Some(0)

====
